---------------------------- MODULE Spec2Model ----------------------------
(***************************************************************************)
(* Citation validation and proposition-support pipeline                    *)
(* (src/src/courtlistener.py, src/src/evaluation.py).                      *)
(*                                                                         *)
(* The module holds one state machine per component:                       *)
(*   SpecRetry   retry_with_backoff                                        *)
(*   SpecChunk   _chunk_text                                               *)
(*   SpecClient  CourtListenerClient.validate_citation and CitationCache   *)
(*   SpecEval    evaluate_complaint                                        *)
(*   SpecDir     evaluate_complaints_directory and its worker pool         *)
(* Each specification runs one component and keeps the variables of the    *)
(* others at their idle values.                                            *)
(***************************************************************************)
EXTENDS Integers, Sequences, FiniteSets, TLC

VARIABLES
    \* retry_with_backoff
    max_retries, base_delay, max_delay,   \* its parameters
    rPc,          \* "loop" | "sleep" | "exhausted" | "returned" | "raised"
    attempt,      \* the loop variable
    delay,        \* the local `delay`
    last_exception,
    rResult,      \* the value returned or the exception raised
    fnCalls,      \* number of invocations of fn
    fails,        \* the failures fn produced, in order
    sleeps,       \* the arguments of time.sleep, in order
    \* _chunk_text
    text, chunk_size, overlap,            \* its parameters
    cPc,          \* "enter" | "loop" | "done"
    start,        \* the local `start`
    chunks,       \* the local `chunks`, then the returned list
    cParity,      \* parity of the number of iterations of the while loop
    \* CourtListenerClient and its CitationCache
    cache_file,   \* citation_cache.json on disk
    cache,        \* CitationCache._cache
    citations,    \* the Citation objects handed to the client
    vLog,         \* one record per validate_citation call, in order
    \* CitationCache used on its own
    cacheOps,     \* the set and get calls made on the cache, in order
    \* evaluate_complaint
    extracted,    \* the list returned by extract_citations_with_llm
    ePc,          \* "loop" | "returned" | "raised"
    eIdx,         \* number of citations the loop has processed
    evaluation,   \* the ComplaintEvaluation being built
    eCalls,       \* the validation and support calls made, in order
    \* evaluate_proposition_support
    sPrimary,     \* what the evaluator does on the whole opinion text
    sScript,      \* what the evaluator does on each chunk of the text
    sPc,          \* "primary" | "loop" | "after" | "returned" | "raised"
    sIdx,         \* chunks the loop has gone through
    best_supporting_result, \* the local, as a sequence of length 0 or 1
    all_results,  \* the local `all_results`
    sResult,      \* the result returned or the exception raised
    sCalls,       \* the evaluator calls made: 0 for the whole text, i for chunk i
    \* CourtListenerClient._rate_limit, for several client instances
    now,          \* time.time(), in tenths of a second
    rate_limit_delay,   \* the constructor's parameter, the same for every instance
    last_request_time,  \* per instance, _last_request_time
    reqLog,       \* the external requests started: instance and time, in order
    \* CourtListenerClient.lookup_citation
    lScript,      \* what the service does on each try of the lookup request
    lBody,        \* the body of the lookup response
    lPc,          \* "call" | "returned" | "raised"
    lCluster,     \* the cluster returned, as a sequence of length 0 or 1
    \* CourtListenerClient.validate_citations
    bPc,          \* "ready" | "loop" | "returned" | "raised"
    bIdx,         \* elements of the batch the loop has gone through
    bLog,         \* what was done to a citation, by a call or by the batch
    \* evaluate_complaints_directory and its workers
    max_workers,  \* its parameter
    docCites,     \* per document, what citation extraction returns for it
    artifacts,    \* per document, its <stem>_evaluation.json: "none" | "written" | "partial"
    dPc,          \* "running" | "returned" | "raised"
    wPc,          \* per document, its worker: "queued" | "extract" | "loop" | "close" | "done"
    wCache,       \* per worker, the _cache of its own client
    wEval,        \* per worker, the evaluation being built
    wIdx,         \* per worker, citations processed
    wRet,         \* per worker: "pending" | "None" | "evaluation" | "exception"
    collected,    \* the futures as_completed has yielded
    results,      \* the local `results`
    raisedIn,     \* documents whose processing raised an exception in this run
    llmCalls,     \* LLM requests made in this run
    dbRequests,   \* legal-database requests made in this run
    writes,       \* artifacts opened for writing in this run
    allDoneAtStart, \* every document had its artifact when this run started
    lastRaised    \* documents whose latest evaluate_complaint raised (history)

retryVars == <<max_retries, base_delay, max_delay, rPc, attempt, delay,
               last_exception, rResult, fnCalls, fails, sleeps>>

chunkVars == <<text, chunk_size, overlap, cPc, start, chunks, cParity>>

clientVars == <<cache_file, cache, citations, vLog>>

cacheVars == <<cacheOps>>

evalVars == <<extracted, ePc, eIdx, evaluation, eCalls>>

supportVars == <<sPrimary, sScript, sPc, sIdx, best_supporting_result,
                 all_results, sResult, sCalls>>

rateVars == <<now, rate_limit_delay, last_request_time, reqLog>>

lookupVars == <<lScript, lBody, lPc, lCluster>>

batchVars == <<bPc, bIdx, bLog>>

dirVars == <<max_workers, docCites, artifacts, dPc, wPc, wCache, wEval, wIdx,
             wRet, collected, results, raisedIn, llmCalls, dbRequests, writes,
             allDoneAtStart,
            lastRaised>>

vars == <<retryVars, chunkVars, clientVars, evalVars, dirVars, cacheVars,
          supportVars, rateVars, lookupVars, batchVars>>

\* Python's None, and a key that a JSON object does not have.
None == "<None>"
Absent == "<absent>"

\* Optional[bool] values.
PyTrue == "True"
PyFalse == "False"

\* Truth value of an optional string.
Truthy(v) == v \notin {None, Absent, ""}

Min(a, b) == IF a <= b THEN a ELSE b

Max(a, b) == IF a >= b THEN a ELSE b

RECURSIVE Pow2(_)
Pow2(n) == IF n <= 0 THEN 1 ELSE 2 * Pow2(n - 1)

(***************************************************************************)
(* retry_with_backoff                                                      *)
(***************************************************************************)

\* Defaults of retry_with_backoff; delays are in whole seconds.
DefaultMaxRetries == 3
DefaultBaseDelay == 1
DefaultMaxDelay == 30

\* Largest max_retries explored.
MaxRetriesBound == 3

\* (base_delay, max_delay) pairs explored: the defaults, a schedule that
\* reaches the cap, a cap below the second delay, a cap below the first.
DelayConfigs == { <<DefaultBaseDelay, DefaultMaxDelay>>,
                  <<4, DefaultMaxDelay>>,
                  <<DefaultBaseDelay, 3>>,
                  <<4, 3>> }

\* What one invocation of fn can do: return, raise httpx.HTTPStatusError with
\* a status, or raise another exception.
HttpStatuses == {400, 404, 429, 500, 503}
ExcTypes == {"ConnectError", "ReadTimeout", "WriteTimeout", "PoolTimeout",
             "JSONDecodeError"}
Failures == [type : {"HTTPStatusError"}, status : HttpStatuses]
              \cup [type : ExcTypes, status : {0}]
Success == [type |-> "ok", status |-> 200]
FnOutcomes == {Success} \cup Failures

IsSuccess(o) == o.type = "ok"

\* The exception raised by the invocation number k (counted from 0).
ExcOf(f, k) == [type |-> f.type, status |-> f.status, at |-> k]

\* `except httpx.HTTPStatusError`
IsStatusError(f) == f.type = "HTTPStatusError"

\* `except (ConnectError, ReadTimeout, WriteTimeout, PoolTimeout,
\*          TimeoutException)`
IsConnectionError(f) ==
    f.type \in {"ConnectError", "ReadTimeout", "WriteTimeout", "PoolTimeout"}

\* Mutation: every client error is retried.
RetriedStatusAll4xx(s) == s >= 400

\* The status branches that fall through to the sleep instead of `raise`.
RetriedStatus(s) == s = 429 \/ s = 400 \/ s >= 500

\* A failure after which the loop goes on.
Retryable(f) ==
    \/ IsStatusError(f) /\ RetriedStatus(f.status)
    \/ IsConnectionError(f)

\* Mutation: the rate-limit branch uses the standard schedule.
BackoffDelayNoDoubling(f, k, base, cap) == Min(base * Pow2(k), cap)

\* The delay computed in the except clauses for a retryable failure.
BackoffDelay(f, k, base, cap) ==
    IF IsStatusError(f) /\ f.status = 429
    THEN Min(base * Pow2(k) * 2, cap)
    ELSE Min(base * Pow2(k), cap)

\* Mutation: the sleep also follows the final attempt.
SleepsAfterAlways(k, retries) == k <= retries

\* `if attempt < max_retries:` guarding the sleep.
SleepsAfter(k, retries) == k < retries

\* Mutation: range(max_retries), one attempt short.
HasAttemptShort(k, retries) == k < retries

\* `range(max_retries + 1)`: the attempts the loop makes.
HasAttempt(k, retries) == k < retries + 1

RetryInit ==
    /\ max_retries \in 0..MaxRetriesBound
    /\ \E c \in DelayConfigs : base_delay = c[1] /\ max_delay = c[2]
    /\ rPc = "loop"
    /\ attempt = 0
    /\ delay = 0
    /\ last_exception = None
    /\ rResult = None
    /\ fnCalls = 0
    /\ fails = <<>>
    /\ sleeps = <<>>

\* One pass through the try statement: fn() returns, or raises and the except
\* clauses classify the failure.
RetryAttempt(o) ==
    /\ rPc = "loop"
    /\ HasAttempt(attempt, max_retries)
    /\ fnCalls' = fnCalls + 1
    /\ IF IsSuccess(o)
       THEN /\ rPc' = "returned"
            /\ rResult' = Success
            /\ UNCHANGED <<delay, last_exception, fails, attempt>>
       ELSE /\ fails' = Append(fails, o)
            /\ IF Retryable(o)
               THEN /\ last_exception' = ExcOf(o, attempt)
                    /\ delay' = BackoffDelay(o, attempt, base_delay, max_delay)
                    /\ rResult' = rResult
                    /\ IF SleepsAfter(attempt, max_retries)
                       THEN rPc' = "sleep" /\ attempt' = attempt
                       ELSE /\ attempt' = attempt + 1
                            /\ rPc' = IF HasAttempt(attempt + 1, max_retries)
                                      THEN "loop" ELSE "exhausted"
               ELSE /\ last_exception' =
                          IF IsStatusError(o) THEN ExcOf(o, attempt)
                          ELSE last_exception
                    /\ rResult' = ExcOf(o, attempt)
                    /\ rPc' = "raised"
                    /\ UNCHANGED <<delay, attempt>>
    /\ UNCHANGED <<max_retries, base_delay, max_delay, sleeps>>
    /\ UNCHANGED <<chunkVars, clientVars, evalVars, dirVars, cacheVars, supportVars, rateVars, lookupVars, batchVars>>

\* time.sleep(delay), then the next iteration.
RetrySleep ==
    /\ rPc = "sleep"
    /\ sleeps' = Append(sleeps, delay)
    /\ attempt' = attempt + 1
    /\ rPc' = IF HasAttempt(attempt + 1, max_retries) THEN "loop" ELSE "exhausted"
    /\ UNCHANGED <<max_retries, base_delay, max_delay, delay, last_exception,
                   rResult, fnCalls, fails>>
    /\ UNCHANGED <<chunkVars, clientVars, evalVars, dirVars, cacheVars, supportVars, rateVars, lookupVars, batchVars>>

\* `raise last_exception` after the loop.
RetryRaiseLast ==
    /\ rPc = "exhausted"
    /\ rResult' = last_exception
    /\ rPc' = "raised"
    /\ UNCHANGED <<max_retries, base_delay, max_delay, attempt, delay,
                   last_exception, fnCalls, fails, sleeps>>
    /\ UNCHANGED <<chunkVars, clientVars, evalVars, dirVars, cacheVars, supportVars, rateVars, lookupVars, batchVars>>

RetryNext ==
    \/ \E o \in FnOutcomes : RetryAttempt(o)
    \/ RetrySleep
    \/ RetryRaiseLast

\* retry_with_backoff not running.
RetryIdle ==
    /\ max_retries = DefaultMaxRetries
    /\ base_delay = DefaultBaseDelay
    /\ max_delay = DefaultMaxDelay
    /\ rPc = "idle"
    /\ attempt = 0
    /\ delay = 0
    /\ last_exception = None
    /\ rResult = None
    /\ fnCalls = 0
    /\ fails = <<>>
    /\ sleeps = <<>>

(***************************************************************************)
(* _chunk_text                                                             *)
(***************************************************************************)

\* Longest text, largest chunk_size and overlap explored.
MaxTextLen == 5
MaxChunkSize == 3

\* Characters of the texts explored.
Alphabet == {"a", "b"}

Texts == UNION { [1..n -> Alphabet] : n \in 0..MaxTextLen }

\* The loop never ends when overlap >= chunk_size: the list then grows without
\* limit and `start` stays or falls without limit. The model keeps the first
\* ChunkCap chunks of the list, and keeps `start` at StartFloor once it is
\* below it: from there on every slice text[start:end] is empty, as both
\* indices are clamped to 0.
ChunkCap == MaxTextLen + 2
StartFloor == 0 - (MaxTextLen + MaxChunkSize)

\* A slice index as Python clamps it for a sequence of length n.
SliceIndex(i, n) == IF i < 0 THEN Max(i + n, 0) ELSE Min(i, n)

\* s[a:b]
PySlice(s, a, b) ==
    LET lo == SliceIndex(a, Len(s))
        hi == SliceIndex(b, Len(s))
    IN  IF lo >= hi THEN <<>> ELSE SubSeq(s, lo + 1, hi)

\* Mutation: the window advances by the full chunk size.
NextStartNoOverlap(end, ov) == end

\* `start = end - overlap`
NextStart(end, ov) == end - ov

\* Mutation: a text as long as chunk_size is sent to the loop.
FitsOneChunkStrict(t, size) == Len(t) < size

\* `len(text) <= chunk_size`
FitsOneChunk(t, size) == Len(t) <= size

ChunkInit ==
    /\ text \in Texts
    /\ chunk_size \in 1..MaxChunkSize
    /\ overlap \in 0..MaxChunkSize
    /\ cPc = "enter"
    /\ start = 0
    /\ chunks = <<>>
    /\ cParity = 0

\* `if len(text) <= chunk_size: return [text]`, else the loop is set up.
ChunkEnter ==
    /\ cPc = "enter"
    /\ IF FitsOneChunk(text, chunk_size)
       THEN chunks' = <<text>> /\ cPc' = "done"
       ELSE chunks' = <<>> /\ cPc' = "loop"
    /\ start' = 0
    /\ UNCHANGED <<text, chunk_size, overlap, cParity>>
    /\ UNCHANGED <<retryVars, clientVars, evalVars, dirVars, cacheVars, supportVars, rateVars, lookupVars, batchVars>>

\* One iteration of `while start < len(text)`.
ChunkStep ==
    /\ cPc = "loop"
    /\ start < Len(text)
    /\ LET end == start + chunk_size
       IN  /\ chunks' = IF Len(chunks) < ChunkCap
                         THEN Append(chunks, PySlice(text, start, end))
                         ELSE chunks
           /\ start' = Max(NextStart(end, overlap), StartFloor)
    /\ cParity' = 1 - cParity
    /\ UNCHANGED <<text, chunk_size, overlap, cPc>>
    /\ UNCHANGED <<retryVars, clientVars, evalVars, dirVars, cacheVars, supportVars, rateVars, lookupVars, batchVars>>

\* The loop condition fails: `return chunks`.
ChunkReturn ==
    /\ cPc = "loop"
    /\ ~(start < Len(text))
    /\ cPc' = "done"
    /\ UNCHANGED <<text, chunk_size, overlap, start, chunks, cParity>>
    /\ UNCHANGED <<retryVars, clientVars, evalVars, dirVars, cacheVars, supportVars, rateVars, lookupVars, batchVars>>

ChunkNext == ChunkEnter \/ ChunkStep \/ ChunkReturn

\* _chunk_text not running.
ChunkIdle ==
    /\ text = <<>>
    /\ chunk_size = 1
    /\ overlap = 0
    /\ cPc = "idle"
    /\ start = 0
    /\ chunks = <<>>
    /\ cParity = 0

(***************************************************************************)
(* retry_with_backoff as the client calls it: run to completion with the   *)
(* default parameters against a script of what the service answers.        *)
(***************************************************************************)

NoExc == [type |-> "none", status |-> 0, at |-> 0]

\* What the service does on invocation k (from 0): the script's entry, the
\* last entry repeating once the script is used up.
ScriptAt(script, k) == script[Min(k + 1, Len(script))]

RECURSIVE RetryRun(_, _, _, _, _)
\* The loop of retry_with_backoff from attempt k on.
RetryRun(script, k, calls, slept, last) ==
    IF ~HasAttempt(k, DefaultMaxRetries)
    THEN [raised |-> TRUE, exc |-> last, calls |-> calls, sleeps |-> slept]
    ELSE LET o == ScriptAt(script, k) IN
         IF IsSuccess(o)
         THEN [raised |-> FALSE, exc |-> NoExc, calls |-> calls + 1, sleeps |-> slept]
         ELSE IF Retryable(o)
         THEN RetryRun(script, k + 1, calls + 1,
                       IF SleepsAfter(k, DefaultMaxRetries)
                       THEN Append(slept, BackoffDelay(o, k, DefaultBaseDelay,
                                                       DefaultMaxDelay))
                       ELSE slept,
                       ExcOf(o, k))
         ELSE [raised |-> TRUE, exc |-> ExcOf(o, k), calls |-> calls + 1,
               sleeps |-> slept]

\* retry_with_backoff(fn) with the defaults.
Retry(script) == RetryRun(script, 0, 0, <<>>, NoExc)

HttpError(st) == [type |-> "HTTPStatusError", status |-> st]

\* Service behaviours explored for one request: answers at once, answers
\* after one server error, refuses with 404.
NetScripts == { <<Success>>, <<HttpError(500), Success>>, <<HttpError(404)>> }

(***************************************************************************)
(* CitationCache                                                           *)
(***************************************************************************)

\* str.lower() on one character.
LowerChar(ch) ==
    CASE ch = "R" -> "r"
      [] ch = "D" -> "d"
      [] ch = "X" -> "x"
      [] ch = "Y" -> "y"
      [] ch = "T" -> "t"
      [] ch = "O" -> "o"
      [] ch = "K" -> "k"
      [] ch = "E" -> "e"
      [] ch = "N" -> "n"
      [] OTHER -> ch

RECURSIVE Lower(_)
\* str.lower()
Lower(str) == IF str = "" THEN "" ELSE LowerChar(Head(str)) \o Lower(Tail(str))

RECURSIVE LStrip(_)
LStrip(str) ==
    IF str # "" /\ Head(str) = " " THEN LStrip(Tail(str)) ELSE str

RECURSIVE RStrip(_)
RStrip(str) ==
    IF str # "" /\ SubSeq(str, Len(str), Len(str)) = " "
    THEN RStrip(SubSeq(str, 1, Len(str) - 1))
    ELSE str

\* str.strip()
Strip(str) == RStrip(LStrip(str))

\* hashlib.md5(...).hexdigest(): distinct inputs give distinct digests.
Md5(str) == "md5:" \o str

\* Mutation: the key is taken from the text as written.
make_key_raw(raw_text) == Md5(raw_text)

\* CitationCache.make_key
make_key(raw_text) == Md5(Strip(Lower(raw_text)))

\* The dict stored under a key by CitationCache.set (the timestamp, which
\* nothing reads back but CacheEntry, is left out).
CacheData(citation, is_valid, courtlistener_id, case_name, opinion_text, error) ==
    [is_valid |-> is_valid,
     courtlistener_id |-> courtlistener_id,
     case_name |-> case_name,
     opinion_text |-> opinion_text,
     error |-> error,
     raw_text |-> citation.raw_text]

\* CitationCache.set on the in-memory dict c (the save is the caller's step).
CacheSet(c, citation, is_valid, courtlistener_id, case_name, opinion_text, error) ==
    LET key == make_key(citation.raw_text)
        data == CacheData(citation, is_valid, courtlistener_id, case_name,
                          opinion_text, error)
    IN  [k \in DOMAIN c \cup {key} |-> IF k = key THEN data ELSE c[k]]

\* `key in self._cache` of CitationCache.get
CacheHas(c, citation) == make_key(citation.raw_text) \in DOMAIN c

\* The CacheEntry returned by CitationCache.get on a hit.
CacheGet(c, citation) ==
    LET key == make_key(citation.raw_text)
        data == c[key]
    IN  [citation_key |-> key,
         is_valid |-> data.is_valid,
         courtlistener_id |-> data.courtlistener_id,
         case_name |-> data.case_name,
         opinion_text |-> data.opinion_text,
         error |-> data.error]

EmptyDict == [k \in {} |-> None]

\* The cache file: missing, unreadable as JSON, or holding a dict.
MissingFile == [state |-> "missing", data |-> EmptyDict]
CorruptFile == [state |-> "corrupt", data |-> EmptyDict]
JsonFile(c) == [state |-> "json", data |-> c]

\* CitationCache._load_cache
LoadCache(file) == IF file.state = "json" THEN file.data ELSE EmptyDict

\* Mutation: the save keeps the entries of the file that the dict lacks.
SaveCacheMerging(file, c) ==
    JsonFile([k \in DOMAIN LoadCache(file) \cup DOMAIN c |->
                IF k \in DOMAIN c THEN c[k] ELSE LoadCache(file)[k]])

\* CitationCache._save_cache: the file is rewritten from the dict in memory.
SaveCache(file, c) == JsonFile(c)

\* Calls explored on a cache used on its own.
MaxCacheOps == 3
CacheRawTexts == {"Roe", " roe ", "Doe"}
CacheIds == {"123", "456"}

\* `CitationCache(cache_dir)` on a directory without a cache file.
CacheInit ==
    /\ cache_file = MissingFile
    /\ cache = LoadCache(cache_file)
    /\ cacheOps = <<>>
    /\ citations = [i \in {} |-> None]
    /\ vLog = <<>>

\* cache.set(citation, is_valid, courtlistener_id), _save_cache included.
CacheOpSet(raw_text, is_valid, courtlistener_id) ==
    /\ Len(cacheOps) < MaxCacheOps
    /\ cache' = CacheSet(cache, [raw_text |-> raw_text], is_valid,
                         courtlistener_id, None, None, None)
    /\ cache_file' = SaveCache(cache_file, cache')
    /\ cacheOps' = Append(cacheOps,
                          [op |-> "set", raw_text |-> raw_text, hit |-> FALSE,
                           is_valid |-> is_valid,
                           courtlistener_id |-> courtlistener_id])
    /\ UNCHANGED <<citations, vLog>>
    /\ UNCHANGED <<retryVars, chunkVars, evalVars, dirVars, supportVars, rateVars, lookupVars, batchVars>>

\* cache.get(citation): the entry returned, or None.
CacheOpGet(raw_text) ==
    /\ Len(cacheOps) < MaxCacheOps
    /\ LET citation == [raw_text |-> raw_text]
           hit == CacheHas(cache, citation)
       IN  cacheOps' = Append(cacheOps,
             [op |-> "get", raw_text |-> raw_text, hit |-> hit,
              is_valid |-> IF hit THEN CacheGet(cache, citation).is_valid
                           ELSE None,
              courtlistener_id |->
                  IF hit THEN CacheGet(cache, citation).courtlistener_id
                  ELSE None])
    /\ UNCHANGED <<cache_file, cache, citations, vLog>>
    /\ UNCHANGED <<retryVars, chunkVars, evalVars, dirVars, supportVars, rateVars, lookupVars, batchVars>>

CacheNext ==
    \/ \E t \in CacheRawTexts, v \in {PyTrue, PyFalse}, id \in CacheIds :
          CacheOpSet(t, v, id)
    \/ \E t \in CacheRawTexts : CacheOpGet(t)

\* No direct call on a cache.
CacheIdle == cacheOps = <<>>

(***************************************************************************)
(* CourtListenerClient                                                     *)
(***************************************************************************)

RECURSIVE TextContentFrom(_, _)
\* The characters of str outside markup tags.
TextContentFrom(str, inTag) ==
    IF str = "" THEN ""
    ELSE LET ch == Head(str) IN
         IF ch = "<" THEN TextContentFrom(Tail(str), TRUE)
         ELSE IF ch = ">" /\ inTag THEN TextContentFrom(Tail(str), FALSE)
         ELSE IF inTag THEN TextContentFrom(Tail(str), TRUE)
         ELSE ch \o TextContentFrom(Tail(str), FALSE)

\* html.fromstring(markup).text_content()
TextContent(markup) == TextContentFrom(markup, FALSE)

\* Clusters the lookup service returns.
ClusterInline ==
    [id |-> "77", case_name |-> "Roe v. Wade", sub_opinions |-> <<>>,
     html_with_citations |-> "<p>held</p>", plain_text |-> Absent]
ClusterLinked ==
    [id |-> "78", case_name |-> Absent, sub_opinions |-> <<"opinions/9">>,
     html_with_citations |-> Absent, plain_text |-> Absent]
ClusterBare ==
    [id |-> Absent, case_name |-> "Roe", sub_opinions |-> <<>>,
     html_with_citations |-> Absent, plain_text |-> Absent]

Match(st, cls) == [status |-> st, clusters |-> cls]

\* Bodies of the citation-lookup response.
LookupResponses ==
    { <<>>,
      <<Match(200, <<ClusterInline>>)>>,
      <<Match(200, <<ClusterLinked>>)>>,
      <<Match(200, <<ClusterBare>>)>>,
      <<Match(404, <<>>)>>,
      <<Match(404, <<>>), Match(200, <<ClusterInline>>)>> }

NoOpinionData == [html_with_citations |-> Absent, plain_text |-> Absent]

\* Bodies of the per-opinion resource.
OpinionData ==
    { [html_with_citations |-> "<i>duty</i>", plain_text |-> "duty of care"],
      [html_with_citations |-> Absent, plain_text |-> "duty of care"],
      NoOpinionData }

\* What the service does during one validate_citation call: its behaviour and
\* body for the lookup (ls, resp) and, when the cluster found links to its
\* opinion, for the per-opinion fetch (fs, od).
Answer(ls, resp, fs, od) == [ls |-> ls, resp |-> resp, fs |-> fs, od |-> od]

LinksOpinion(resp) ==
    /\ Len(resp) > 0
    /\ Len(resp[1].clusters) > 0
    /\ Len(resp[1].clusters[1].sub_opinions) > 0

ServiceAnswers ==
    { Answer(ls, resp, <<Success>>, NoOpinionData) :
        ls \in NetScripts, resp \in {r \in LookupResponses : ~LinksOpinion(r)} }
    \cup
    { Answer(x[1], x[2], x[3], x[4]) :
        x \in NetScripts \X {r \in LookupResponses : LinksOpinion(r)}
                \X NetScripts \X OpinionData }

\* dict.get(key) on a field that may be missing.
DictGet(v) == IF v = Absent THEN None ELSE v

\* The text taken from a cluster or an opinion resource:
\* html_with_citations if the key is there, else plain_text.
BestText(d) ==
    IF d.html_with_citations # Absent
    THEN TextContent(d.html_with_citations)
    ELSE DictGet(d.plain_text)

\* The parsing of lookup_citation: the first cluster of the first match when
\* that match has status 200, as a sequence of length 1; <<>> for None.
ParseLookup(body) ==
    IF Len(body) > 0
       /\ body[1].status = 200
       /\ Len(body[1].clusters) > 0
    THEN <<body[1].clusters[1]>>
    ELSE <<>>

NotFoundError == "Citation not found in CourtListener"

\* Mutation: a citation that was not found is not cached.
CacheNotFoundSkipped(c, citation) == c

\* `self.cache.set(citation, is_valid=False, error="Not found")`
CacheNotFound(c, citation) ==
    CacheSet(c, citation, PyFalse, None, None, None, "Not found")

\* The cache-hit branch of validate_citation.
ApplyCached(citation, cached) ==
    [citation EXCEPT
       !.is_valid = cached.is_valid,
       !.courtlistener_id = cached.courtlistener_id,
       !.opinion_text = cached.opinion_text,
       !.case_name = IF Truthy(cached.case_name) THEN cached.case_name ELSE @,
       !.validation_error = IF Truthy(cached.error) THEN cached.error ELSE @]

\* What one call of validate_citation reports: the citation and cache after
\* it, whether the cache was saved, and the network use.
Outcome(citation, c, saved, hit, raised, lookups, requests) ==
    [citation |-> citation, cache |-> c, saved |-> saved, hit |-> hit,
     raised |-> raised, lookups |-> lookups, requests |-> requests]

\* Mutation: the entry is stored before the opinion text is fetched.
ValidateFoundStoredFirst(c, citation, cluster, lookupRequests, fs, od) ==
    LET cit1 == [citation EXCEPT
                   !.is_valid = PyTrue,
                   !.courtlistener_id =
                       IF cluster.id = Absent THEN "" ELSE cluster.id,
                   !.case_name =
                       IF ~Truthy(@) /\ Truthy(cluster.case_name)
                       THEN cluster.case_name ELSE @]
        linked == Len(cluster.sub_opinions) > 0
        fetch == Retry(fs)
        requests == lookupRequests + (IF linked THEN fetch.calls ELSE 0)
        opinion_text == IF linked /\ fetch.raised THEN None
                        ELSE IF linked THEN BestText(od) ELSE BestText(cluster)
        cit2 == [cit1 EXCEPT !.opinion_text = opinion_text]
    IN  Outcome(IF linked /\ fetch.raised THEN cit1 ELSE cit2,
                CacheSet(c, cit2, PyTrue, cit2.courtlistener_id,
                         cit2.case_name, opinion_text, None),
                TRUE, FALSE, linked /\ fetch.raised, 1, requests)

\* validate_citation on a cache miss with a cluster found. fs and od are the
\* service's behaviour and body for the per-opinion fetch.
ValidateFound(c, citation, cluster, lookupRequests, fs, od) ==
    LET cit1 == [citation EXCEPT
                   !.is_valid = PyTrue,
                   !.courtlistener_id =
                       IF cluster.id = Absent THEN "" ELSE cluster.id,
                   !.case_name =
                       IF ~Truthy(@) /\ Truthy(cluster.case_name)
                       THEN cluster.case_name ELSE @]
        linked == Len(cluster.sub_opinions) > 0
        fetch == Retry(fs)
        requests == lookupRequests + (IF linked THEN fetch.calls ELSE 0)
        opinion_text == IF linked THEN BestText(od) ELSE BestText(cluster)
        cit2 == [cit1 EXCEPT !.opinion_text = opinion_text]
    IN  IF linked /\ fetch.raised
        THEN Outcome(cit1, c, FALSE, FALSE, TRUE, 1, requests)
        ELSE Outcome(cit2,
                     CacheSet(c, cit2, PyTrue, cit2.courtlistener_id,
                              cit2.case_name, opinion_text, None),
                     TRUE, FALSE, FALSE, 1, requests)

\* CourtListenerClient.validate_citation. ls and resp are the service's
\* behaviour and body for the lookup.
ValidateCitation(c, citation, ls, resp, fs, od) ==
    IF CacheHas(c, citation)
    THEN Outcome(ApplyCached(citation, CacheGet(c, citation)), c,
                 FALSE, TRUE, FALSE, 0, 0)
    ELSE LET lookup == Retry(ls)
             found == ParseLookup(resp)
         IN  IF lookup.raised
             THEN Outcome(citation, c, FALSE, FALSE, TRUE, 1, lookup.calls)
             ELSE IF found # <<>>
             THEN ValidateFound(c, citation, found[1], lookup.calls, fs, od)
             ELSE Outcome([citation EXCEPT
                             !.is_valid = PyFalse,
                             !.validation_error = NotFoundError],
                          CacheNotFound(c, citation),
                          TRUE, FALSE, FALSE, 1, lookup.calls)

\* Citation(raw_text=...)
NewCitation(raw_text) ==
    [raw_text |-> raw_text, case_name |-> None, court |-> None,
     is_valid |-> None, courtlistener_id |-> None,
     validation_error |-> None, opinion_text |-> None]

\* Number of validate_citation calls explored.
MaxValidations == 2

\* The Citation objects and the raw texts they can have.
CitIds == {1, 2}
ClientRawTexts == {"Roe", " roe ", "Doe"}

\* A cache left by an earlier run.
OldCache ==
    CacheSet(EmptyDict, NewCitation("doe"), PyTrue, "12", "Doe", "old text", None)

\* The client just constructed: the cache loaded from whatever is on disk.
ClientInit ==
    /\ cache_file \in {MissingFile, CorruptFile, JsonFile(OldCache)}
    /\ cache = LoadCache(cache_file)
    /\ citations \in [CitIds -> {NewCitation(t) : t \in ClientRawTexts}]
    /\ vLog = <<>>

\* What the service did to the call. The lookup ends in an exception.
LookupFails(a) == Retry(a.ls).raised

\* The lookup gives a cluster that links to its opinion, and the fetch of
\* that opinion ends in an exception.
FetchFails(a) ==
    /\ ~LookupFails(a)
    /\ ParseLookup(a.resp) # <<>>
    /\ Len(ParseLookup(a.resp)[1].sub_opinions) > 0
    /\ Retry(a.fs).raised

\* One call client.validate_citation(citations[i]), returning or raising.
ClientValidate(i, a) ==
    /\ Len(vLog) < MaxValidations
    /\ LET r == ValidateCitation(cache, citations[i], a.ls, a.resp, a.fs, a.od)
       IN  /\ citations' = [citations EXCEPT ![i] = r.citation]
           /\ cache' = r.cache
           /\ cache_file' = IF r.saved THEN SaveCache(cache_file, r.cache) ELSE cache_file
           /\ vLog' = Append(vLog, [cit |-> i,
                                    key |-> make_key(citations[i].raw_text),
                                    hit |-> r.hit,
                                    raised |-> r.raised,
                                    lookups |-> r.lookups,
                                    requests |-> r.requests,
                                    failed |->
                                        IF r.hit THEN "none"
                                        ELSE IF LookupFails(a) THEN "lookup"
                                        ELSE IF FetchFails(a) THEN "fetch"
                                        ELSE "none",
                                    matched |->
                                        /\ ~r.hit
                                        /\ ~LookupFails(a)
                                        /\ ParseLookup(a.resp) # <<>>])
    /\ UNCHANGED <<retryVars, chunkVars, evalVars, dirVars, cacheVars, supportVars, rateVars, lookupVars, batchVars>>

ClientNext ==
    \E i \in CitIds, a \in ServiceAnswers : ClientValidate(i, a)

\* No client constructed.
ClientIdle ==
    /\ cache_file = MissingFile
    /\ cache = EmptyDict
    /\ citations = [i \in {} |-> None]
    /\ vLog = <<>>

(***************************************************************************)
(* evaluate_complaint                                                      *)
(***************************************************************************)

\* Longest list of extracted citations explored.
MaxCitations == 3

\* Raw texts of the extracted citations: a text and the same text followed
\* by " (1)".
EvalRawTexts == {"X", "X (1)"}
CitationTypes == {"case", "statute"}

\* The proposition of the citation at position i.
PropositionAt(i) == "P" \o ToString(i)

\* ExtractedCitation
Extracted(raw_text, citation_type, i) ==
    [raw_text |-> raw_text, citation_type |-> citation_type,
     proposition |-> PropositionAt(i)]

\* The lists extract_citations_with_llm can return.
ExtractedLists ==
    UNION { { [i \in 1..n |-> Extracted(f[i][1], f[i][2], i)] :
                f \in [1..n -> EvalRawTexts \X CitationTypes] } :
            n \in 0..MaxCitations }

\* ComplaintEvaluation(...) with total_citations = len(citations).
NewEvaluation(n) ==
    [total_citations |-> n, case_citations |-> 0, statute_citations |-> 0,
     valid_citations |-> 0, invalid_citations |-> 0,
     supported_propositions |-> 0, unsupported_propositions |-> 0,
     citations |-> EmptyDict]

\* CitationEvaluation(raw_text, citation_type, proposition)
NewCitationEvaluation(cit) ==
    [raw_text |-> cit.raw_text, citation_type |-> cit.citation_type,
     proposition |-> cit.proposition,
     is_valid |-> None, courtlistener_id |-> None, case_name |-> None,
     validation_error |-> None,
     supports_proposition |-> None, support_confidence |-> None]

\* What evaluate_proposition_support can do: return a verdict or raise.
Verdict(s, conf) == [raised |-> FALSE, supports_proposition |-> s, confidence |-> conf]
SupportRaises == [raised |-> TRUE, supports_proposition |-> PyFalse, confidence |-> "low"]
SupportOutcomes == {Verdict(PyTrue, "high"), Verdict(PyFalse, "low"), SupportRaises}

\* The service's answers explored during a complaint: a cluster with inline
\* text, a cluster without text, no match, a refused lookup.
EvalAnswers ==
    { Answer(<<Success>>, <<Match(200, <<ClusterInline>>)>>, <<Success>>, NoOpinionData),
      Answer(<<Success>>, <<Match(200, <<ClusterBare>>)>>, <<Success>>, NoOpinionData),
      Answer(<<Success>>, <<>>, <<Success>>, NoOpinionData),
      Answer(<<HttpError(404)>>, <<>>, <<Success>>, NoOpinionData) }

\* Mutation: the else branch lost, every case citation is counted invalid too.
CountValidityBoth(ev, is_valid) ==
    [ev EXCEPT !.valid_citations = IF is_valid = PyTrue THEN @ + 1 ELSE @,
               !.invalid_citations = @ + 1]

\* Mutation: the else branch lost, a citation not found is counted nowhere.
CountValidityValidOnly(ev, is_valid) ==
    IF is_valid = PyTrue
    THEN [ev EXCEPT !.valid_citations = @ + 1]
    ELSE ev

\* `if validated.is_valid: valid_citations += 1 ... else: invalid_citations += 1`
CountValidity(ev, is_valid) ==
    IF is_valid = PyTrue
    THEN [ev EXCEPT !.valid_citations = @ + 1]
    ELSE [ev EXCEPT !.invalid_citations = @ + 1]

\* `if support_result.supports_proposition: ... else: ...`
CountSupport(ev, supports) ==
    IF supports = PyTrue
    THEN [ev EXCEPT !.supported_propositions = @ + 1]
    ELSE [ev EXCEPT !.unsupported_propositions = @ + 1]

\* f"{raw_text} ({counter})"
SuffixedKey(raw_text, counter) == raw_text \o " (" \o ToString(counter) \o ")"

RECURSIVE FreeKey(_, _, _, _)
\* `while key in evaluation.citations: key = ...; counter += 1`
FreeKey(raw_text, key, counter, taken) ==
    IF key \in taken
    THEN FreeKey(raw_text, SuffixedKey(raw_text, counter), counter + 1, taken)
    ELSE key

\* Mutation: the raw text is the key, duplicates or not.
CitationKeyRaw(raw_text, taken) == raw_text

\* The key under which a citation is stored.
CitationKey(raw_text, taken) == FreeKey(raw_text, raw_text, 1, taken)

\* `evaluation.citations[key] = cit_eval`
StoreCitation(ev, cit_eval) ==
    LET key == CitationKey(cit_eval.raw_text, DOMAIN ev.citations)
    IN  [ev EXCEPT !.citations =
           [k \in DOMAIN ev.citations \cup {key} |->
              IF k = key THEN cit_eval ELSE ev.citations[k]]]

\* What one iteration of the loop reports: the evaluation and cache after it,
\* whether it raised, and the calls it made.
Step(ev, c, saved, raised, calls) ==
    [evaluation |-> ev, cache |-> c, saved |-> saved, raised |-> raised,
     calls |-> calls]

Call(op, i, requests) == [op |-> op, idx |-> i, requests |-> requests]

\* The call cl_client.validate_citation for the citation at position i, with
\* what it gave back.
ValidateCall(i, v) ==
    [op |-> "validate", idx |-> i, requests |-> v.requests,
     raised |-> v.raised,
     is_valid |-> v.citation.is_valid,
     opinion_text |-> v.citation.opinion_text]

\* Mutation: support is evaluated for every valid citation, text or not.
SupportIsEvaluatedIfValid(validated) == validated.is_valid = PyTrue

\* `if validated.is_valid:` ... `if validated.opinion_text:`
SupportIsEvaluated(validated) ==
    validated.is_valid = PyTrue /\ Truthy(validated.opinion_text)

\* One iteration of `for cit in citations` for the citation at position i,
\* with the client's cache c, the service's answer a and the outcome sup of
\* the support evaluation.
ProcessCitation(ev, c, cit, i, a, sup) ==
    LET cit_eval == NewCitationEvaluation(cit) IN
    IF cit.citation_type = "statute"
    THEN Step(StoreCitation([ev EXCEPT !.statute_citations = @ + 1], cit_eval),
              c, FALSE, FALSE, <<>>)
    ELSE
      LET ev1 == [ev EXCEPT !.case_citations = @ + 1]
          v == ValidateCitation(c, NewCitation(cit.raw_text), a.ls, a.resp, a.fs, a.od)
          validated == v.citation
          vcall == ValidateCall(i, v)
          cit_eval1 == [cit_eval EXCEPT
                          !.is_valid = validated.is_valid,
                          !.courtlistener_id = validated.courtlistener_id,
                          !.case_name = validated.case_name,
                          !.validation_error = validated.validation_error]
          ev2 == CountValidity(ev1, validated.is_valid)
          evaluated == SupportIsEvaluated(validated)
          cit_eval2 == [cit_eval1 EXCEPT
                          !.supports_proposition = sup.supports_proposition,
                          !.support_confidence = sup.confidence]
      IN  IF v.raised
          THEN Step(ev1, c, FALSE, TRUE, <<vcall>>)
          ELSE IF ~evaluated
          THEN Step(StoreCitation(ev2, cit_eval1), v.cache, v.saved, FALSE, <<vcall>>)
          ELSE IF sup.raised
          THEN Step(ev2, v.cache, v.saved, TRUE, <<vcall, Call("support", i, 1)>>)
          ELSE Step(StoreCitation(CountSupport(ev2, sup.supports_proposition), cit_eval2),
                    v.cache, v.saved, FALSE, <<vcall, Call("support", i, 1)>>)

\* evaluate_complaint up to the loop: the citations are extracted and
\* total_citations is set. The client was constructed by the caller.
EvalInit ==
    /\ extracted \in ExtractedLists
    /\ ePc = "loop"
    /\ eIdx = 0
    /\ evaluation = NewEvaluation(Len(extracted))
    /\ eCalls = <<>>
    /\ cache_file = MissingFile
    /\ cache = EmptyDict
    /\ citations = [i \in {} |-> None]
    /\ vLog = <<>>

\* One iteration of the loop.
EvalCitation(a, sup) ==
    /\ ePc = "loop"
    /\ eIdx < Len(extracted)
    /\ LET r == ProcessCitation(evaluation, cache, extracted[eIdx + 1], eIdx + 1, a, sup)
       IN  /\ evaluation' = r.evaluation
           /\ cache' = r.cache
           /\ cache_file' = IF r.saved THEN SaveCache(cache_file, r.cache) ELSE cache_file
           /\ eCalls' = eCalls \o r.calls
           /\ ePc' = IF r.raised THEN "raised" ELSE "loop"
           /\ eIdx' = IF r.raised THEN eIdx ELSE eIdx + 1
    /\ UNCHANGED <<extracted, citations, vLog>>
    /\ UNCHANGED <<retryVars, chunkVars, dirVars, cacheVars, supportVars, rateVars, lookupVars, batchVars>>

\* `return evaluation`
EvalReturn ==
    /\ ePc = "loop"
    /\ eIdx = Len(extracted)
    /\ ePc' = "returned"
    /\ UNCHANGED <<extracted, eIdx, evaluation, eCalls>>
    /\ UNCHANGED <<retryVars, chunkVars, clientVars, dirVars, cacheVars, supportVars, rateVars, lookupVars, batchVars>>

EvalNext ==
    \/ \E a \in EvalAnswers, sup \in SupportOutcomes : EvalCitation(a, sup)
    \/ EvalReturn

\* evaluate_complaint not running.
EvalIdle ==
    /\ extracted = <<>>
    /\ ePc = "idle"
    /\ eIdx = 0
    /\ evaluation = NewEvaluation(0)
    /\ eCalls = <<>>

(***************************************************************************)
(* evaluate_complaints_directory and _evaluate_single_complaint            *)
(***************************************************************************)

\* Default of max_workers.
DefaultMaxWorkers == 4

\* The *.txt files of the directory.
Docs == {"a", "b"}

\* What extraction returns for a document: one case citation.
DocLists == { <<Extracted("X", "case", 1)>>, <<Extracted("Y", "case", 1)>> }

\* What the services do while one citation of a document is processed: no
\* match, a refused lookup, or a cluster with inline text followed by a
\* verdict or a failure of the support evaluation.
DirInputs ==
    { <<Answer(<<Success>>, <<>>, <<Success>>, NoOpinionData), SupportRaises>>,
      <<Answer(<<HttpError(404)>>, <<>>, <<Success>>, NoOpinionData), SupportRaises>> }
    \cup
    { <<Answer(<<Success>>, <<Match(200, <<ClusterInline>>)>>, <<Success>>,
               NoOpinionData), sup>> : sup \in SupportOutcomes }

\* Mutation: the existence check lost, every document is processed.
ArtifactSkipsNever(artifact) == FALSE

\* Mutation: a document is skipped only when its artifact was written whole.
ArtifactSkipsIfComplete(artifact) == artifact = "written"

\* `if output_path.exists()`
ArtifactSkips(artifact) == artifact # "none"

\* Mutation: future.result() outside any try statement.
OnFutureExceptionPropagate == "raised"

\* `except Exception as e: print(...)` around future.result(): the loop goes on.
OnFutureException == "running"

\* Workers running a document.
Active == {d \in Docs : wPc[d] \notin {"queued", "done"}}

\* The state of a run of evaluate_complaints_directory that has submitted
\* every document to the pool.
RunStart ==
    /\ dPc = "running"
    /\ wPc = [d \in Docs |-> "queued"]
    /\ wCache = [d \in Docs |-> EmptyDict]
    /\ wEval = [d \in Docs |-> NewEvaluation(0)]
    /\ wIdx = [d \in Docs |-> 0]
    /\ wRet = [d \in Docs |-> "pending"]
    /\ collected = {}
    /\ results = <<>>
    /\ raisedIn = {}
    /\ llmCalls = 0
    /\ dbRequests = 0
    /\ writes = 0

\* The first run, on a directory without artifacts and without a cache file.
DirInit ==
    /\ max_workers \in {1, DefaultMaxWorkers}
    /\ docCites \in [Docs -> DocLists]
    /\ artifacts = [d \in Docs |-> "none"]
    /\ allDoneAtStart = FALSE
    /\ lastRaised = {}
    /\ RunStart
    /\ cache_file = MissingFile
    /\ cache = EmptyDict
    /\ citations = [i \in {} |-> None]
    /\ vLog = <<>>

\* A pool thread takes document d: _evaluate_single_complaint up to the try
\* statement. The artifact check comes first; then the clients are
\* constructed (ok is whether that works), the client loading the cache file.
WorkerStart(d, ok) ==
    /\ dPc = "running"
    /\ wPc[d] = "queued"
    /\ Cardinality(Active) < max_workers
    /\ IF ArtifactSkips(artifacts[d])
       THEN /\ wPc' = [wPc EXCEPT ![d] = "done"]
            /\ wRet' = [wRet EXCEPT ![d] = "None"]
            /\ UNCHANGED <<wCache, raisedIn>>
       ELSE IF ~ok
       THEN /\ wPc' = [wPc EXCEPT ![d] = "done"]
            /\ wRet' = [wRet EXCEPT ![d] = "exception"]
            /\ raisedIn' = raisedIn \cup {d}
            /\ UNCHANGED wCache
       ELSE /\ wPc' = [wPc EXCEPT ![d] = "extract"]
            /\ wCache' = [wCache EXCEPT ![d] = LoadCache(cache_file)]
            /\ UNCHANGED <<wRet, raisedIn>>
    /\ UNCHANGED <<max_workers, docCites, artifacts, dPc, wEval, wIdx, collected,
                   results, llmCalls, dbRequests, writes, allDoneAtStart, lastRaised>>
    /\ UNCHANGED <<retryVars, chunkVars, clientVars, evalVars, cacheVars, supportVars, rateVars, lookupVars, batchVars>>

\* evaluate_complaint up to its loop: the document is read and its citations
\* are extracted with one LLM request (ok is whether that works).
WorkerExtract(d, ok) ==
    /\ wPc[d] = "extract"
    /\ llmCalls' = llmCalls + 1
    /\ IF ok
       THEN /\ wEval' = [wEval EXCEPT ![d] = NewEvaluation(Len(docCites[d]))]
            /\ wPc' = [wPc EXCEPT ![d] = "loop"]
            /\ UNCHANGED <<wRet, raisedIn, lastRaised>>
       ELSE /\ wPc' = [wPc EXCEPT ![d] = "close"]
            /\ wRet' = [wRet EXCEPT ![d] = "None"]
            /\ raisedIn' = raisedIn \cup {d}
            /\ lastRaised' = lastRaised \cup {d}
            /\ UNCHANGED wEval
    /\ UNCHANGED <<max_workers, docCites, artifacts, dPc, wCache, wIdx, collected,
                   results, dbRequests, writes, allDoneAtStart>>
    /\ UNCHANGED <<retryVars, chunkVars, clientVars, evalVars, cacheVars, supportVars, rateVars, lookupVars, batchVars>>

SupportCalls(calls) == Len(SelectSeq(calls, LAMBDA c : c.op = "support"))

RECURSIVE SumRequests(_)
SumRequests(calls) ==
    IF calls = <<>> THEN 0
    ELSE (IF Head(calls).op = "validate" THEN Head(calls).requests ELSE 0)
         + SumRequests(Tail(calls))

\* One iteration of the loop of evaluate_complaint in the worker of d. A
\* cache.set rewrites the whole cache file from this worker's _cache.
WorkerCitation(d, a, sup) ==
    /\ wPc[d] = "loop"
    /\ wIdx[d] < Len(docCites[d])
    /\ LET r == ProcessCitation(wEval[d], wCache[d], docCites[d][wIdx[d] + 1],
                                wIdx[d] + 1, a, sup)
       IN  /\ wEval' = [wEval EXCEPT ![d] = r.evaluation]
           /\ wCache' = [wCache EXCEPT ![d] = r.cache]
           /\ cache_file' = IF r.saved THEN SaveCache(cache_file, r.cache) ELSE cache_file
           /\ llmCalls' = llmCalls + SupportCalls(r.calls)
           /\ dbRequests' = dbRequests + SumRequests(r.calls)
           /\ IF r.raised
              THEN /\ wPc' = [wPc EXCEPT ![d] = "close"]
                   /\ wRet' = [wRet EXCEPT ![d] = "None"]
                   /\ raisedIn' = raisedIn \cup {d}
                   /\ lastRaised' = lastRaised \cup {d}
                   /\ UNCHANGED wIdx
              ELSE /\ wIdx' = [wIdx EXCEPT ![d] = @ + 1]
                   /\ UNCHANGED <<wPc, wRet, raisedIn, lastRaised>>
    /\ UNCHANGED <<max_workers, docCites, artifacts, dPc, collected, results,
                   writes, allDoneAtStart>>
    /\ UNCHANGED <<cache, citations, vLog>>
    /\ UNCHANGED <<retryVars, chunkVars, evalVars, cacheVars, supportVars, rateVars, lookupVars, batchVars>>

\* evaluate_complaint has returned: the artifact is opened for writing and the
\* evaluation dumped into it (ok is whether the dump works).
WorkerWrite(d, ok) ==
    /\ wPc[d] = "loop"
    /\ wIdx[d] = Len(docCites[d])
    /\ writes' = writes + 1
    /\ lastRaised' = lastRaised \ {d}
    /\ wPc' = [wPc EXCEPT ![d] = "close"]
    /\ IF ok
       THEN /\ artifacts' = [artifacts EXCEPT ![d] = "written"]
            /\ wRet' = [wRet EXCEPT ![d] = "evaluation"]
            /\ UNCHANGED raisedIn
       ELSE /\ artifacts' = [artifacts EXCEPT ![d] = "partial"]
            /\ wRet' = [wRet EXCEPT ![d] = "None"]
            /\ raisedIn' = raisedIn \cup {d}
    /\ UNCHANGED <<max_workers, docCites, dPc, wCache, wEval, wIdx, collected,
                   results, llmCalls, dbRequests, allDoneAtStart>>
    /\ UNCHANGED <<retryVars, chunkVars, clientVars, evalVars, cacheVars, supportVars, rateVars, lookupVars, batchVars>>

\* `finally: cl_client.close()` (ok is whether it works), then the worker
\* returns or raises and its client is gone.
WorkerClose(d, ok) ==
    /\ wPc[d] = "close"
    /\ wPc' = [wPc EXCEPT ![d] = "done"]
    /\ wCache' = [wCache EXCEPT ![d] = EmptyDict]
    /\ IF ok
       THEN UNCHANGED <<wRet, raisedIn>>
       ELSE /\ wRet' = [wRet EXCEPT ![d] = "exception"]
            /\ raisedIn' = raisedIn \cup {d}
    /\ UNCHANGED <<max_workers, docCites, artifacts, dPc, wEval, wIdx, collected,
                   results, llmCalls, dbRequests, writes, allDoneAtStart, lastRaised>>
    /\ UNCHANGED <<retryVars, chunkVars, clientVars, evalVars, cacheVars, supportVars, rateVars, lookupVars, batchVars>>

\* One iteration of `for future in as_completed(futures)`.
Collect(d) ==
    /\ dPc = "running"
    /\ wPc[d] = "done"
    /\ d \notin collected
    /\ collected' = collected \cup {d}
    /\ results' = IF wRet[d] = "evaluation"
                  THEN Append(results, [complaint_file |-> d, evaluation |-> wEval[d]])
                  ELSE results
    /\ dPc' = IF wRet[d] = "exception" THEN OnFutureException ELSE dPc
    /\ UNCHANGED <<max_workers, docCites, artifacts, wPc, wCache, wEval, wIdx,
                   wRet, raisedIn, llmCalls, dbRequests, writes, allDoneAtStart, lastRaised>>
    /\ UNCHANGED <<retryVars, chunkVars, clientVars, evalVars, cacheVars, supportVars, rateVars, lookupVars, batchVars>>

\* Every future was yielded: `return results`.
DirReturn ==
    /\ dPc = "running"
    /\ collected = Docs
    /\ dPc' = "returned"
    /\ UNCHANGED <<max_workers, docCites, artifacts, wPc, wCache, wEval, wIdx,
                   wRet, collected, results, raisedIn, llmCalls, dbRequests,
                   writes, allDoneAtStart, lastRaised>>
    /\ UNCHANGED <<retryVars, chunkVars, clientVars, evalVars, cacheVars, supportVars, rateVars, lookupVars, batchVars>>

\* evaluate_complaints_directory is run again on the same directory.
DirRunAgain ==
    /\ dPc = "returned"
    /\ allDoneAtStart' = \A d \in Docs : artifacts[d] # "none"
    /\ dPc' = "running"
    /\ wPc' = [d \in Docs |-> "queued"]
    /\ wCache' = [d \in Docs |-> EmptyDict]
    /\ wEval' = [d \in Docs |-> NewEvaluation(0)]
    /\ wIdx' = [d \in Docs |-> 0]
    /\ wRet' = [d \in Docs |-> "pending"]
    /\ collected' = {}
    /\ results' = <<>>
    /\ raisedIn' = {}
    /\ llmCalls' = 0
    /\ dbRequests' = 0
    /\ writes' = 0
    /\ UNCHANGED <<max_workers, docCites, artifacts, lastRaised>>
    /\ UNCHANGED <<retryVars, chunkVars, clientVars, evalVars, cacheVars, supportVars, rateVars, lookupVars, batchVars>>

DirNext ==
    \/ \E d \in Docs, ok \in BOOLEAN : WorkerStart(d, ok)
    \/ \E d \in Docs, ok \in BOOLEAN : WorkerExtract(d, ok)
    \/ \E d \in Docs, in \in DirInputs : WorkerCitation(d, in[1], in[2])
    \/ \E d \in Docs, ok \in BOOLEAN : WorkerWrite(d, ok)
    \/ \E d \in Docs, ok \in BOOLEAN : WorkerClose(d, ok)
    \/ \E d \in Docs : Collect(d)
    \/ DirReturn
    \/ DirRunAgain

\* evaluate_complaints_directory not running.
DirIdle ==
    /\ max_workers = DefaultMaxWorkers
    /\ docCites = [d \in {} |-> <<>>]
    /\ artifacts = [d \in {} |-> "none"]
    /\ dPc = "idle"
    /\ wPc = [d \in {} |-> "queued"]
    /\ wCache = [d \in {} |-> EmptyDict]
    /\ wEval = [d \in {} |-> NewEvaluation(0)]
    /\ wIdx = [d \in {} |-> 0]
    /\ wRet = [d \in {} |-> "pending"]
    /\ collected = {}
    /\ results = <<>>
    /\ raisedIn = {}
    /\ llmCalls = 0
    /\ dbRequests = 0
    /\ writes = 0
    /\ allDoneAtStart = FALSE
    /\ lastRaised = {}

(***************************************************************************)
(* evaluate_proposition_support                                            *)
(***************************************************************************)

\* Chunks the opinion text is split into, at most.
MaxChunks == 3

\* What a call of _evaluate_single_chunk can do: return a result or raise.
Result(s, conf, why) ==
    [kind |-> "result", supports_proposition |-> s, confidence |-> conf,
     reasoning |-> why, exc |-> "", msg |-> ""]
Raises(exc, msg) ==
    [kind |-> "raise", supports_proposition |-> PyFalse, confidence |-> "",
     reasoning |-> "", exc |-> exc, msg |-> msg]

Confidences == {"high", "medium", "low"}

\* Messages of the request errors explored.
RequestErrorMessages ==
    {"TOKEN limit", "max length", "context window", "invalid schema"}

\* Outcomes of the call on the whole text. A rate-limit error is no request
\* error, whatever its message.
PrimaryOutcomes ==
    {Result(PyTrue, "medium", "whole text")}
    \cup {Raises("BadRequestError", m) : m \in RequestErrorMessages}
    \cup {Raises("RateLimitError", "tokens per minute")}

\* Outcomes of the call on one chunk; the reasoning is filled in by the call.
ChunkOutcomes ==
    {Result(s, c, "") : s \in {PyTrue, PyFalse}, c \in Confidences}
    \cup {Raises("BadRequestError", "context window"),
          Raises("RateLimitError", "tokens per minute")}

ChunkScripts == UNION { [1..n -> ChunkOutcomes] : n \in 1..MaxChunks }

\* `sub in str`
Contains(str, sub) ==
    \E i \in 0..(Len(str) - Len(sub)) : SubSeq(str, i + 1, i + Len(sub)) = sub

\* Mutation: every request error counts as a too-large error.
IsTooLargeAlways(msg) == TRUE

\* The negation of the `raise` condition on `error_msg = str(e).lower()`.
IsTooLarge(msg) ==
    LET error_msg == Lower(msg)
    IN  ~(/\ ~Contains(error_msg, "token")
          /\ ~Contains(error_msg, "length")
          /\ ~Contains(error_msg, "context"))

\* _evaluate_single_chunk on chunk i: the evaluator's reasoning names the
\* chunk it read.
EvaluateChunk(i) ==
    IF sScript[i].kind = "result"
    THEN [sScript[i] EXCEPT !.reasoning = "chunk " \o ToString(i)]
    ELSE sScript[i]

\* Mutation: a later positive result replaces the one kept.
KeepsNewBestAlways(best, result) == TRUE

\* `best_supporting_result is None or (result.confidence == "high" and
\* best_supporting_result.confidence != "high")`
KeepsNewBest(best, result) ==
    \/ best = <<>>
    \/ (result.confidence = "high" /\ best[1].confidence # "high")

\* Mutation: the loop goes on after high-confidence support.
StopsEarlyNever(result) == FALSE

\* `if result.confidence == "high": break`
StopsEarly(result) == result.confidence = "high"

\* Mutation: every confidence has the same rank.
ConfidenceOrderFlat(conf) == 0

\* Mutation: no failure of a chunk's call is caught.
ChunkFailureSkippedNever(exc) == FALSE

\* `except BadRequestError:` ... `continue`
ChunkFailureSkipped(exc) == exc = "BadRequestError"

\* confidence_order.get(r.confidence, 3)
ConfidenceOrder(conf) ==
    CASE conf = "high" -> 0
      [] conf = "medium" -> 1
      [] conf = "low" -> 2
      [] OTHER -> 3

\* all_results.sort(key=...)[0]: the sort is stable, so the first of the
\* results with the smallest key.
FirstBySort(rs) ==
    LET i == CHOOSE i \in 1..Len(rs) :
                 /\ \A j \in 1..Len(rs) :
                        ConfidenceOrder(rs[i].confidence)
                          <= ConfidenceOrder(rs[j].confidence)
                 /\ \A j \in 1..(i - 1) :
                        ConfidenceOrder(rs[j].confidence)
                          > ConfidenceOrder(rs[i].confidence)
    IN  rs[i]

\* Mutation: the failure of the chunks comes back as an error.
AllChunksFailedAsError == Raises("BadRequestError", "context window")

AllChunksFailed ==
    Result(PyFalse, "low",
           "Failed to evaluate proposition support (all chunks failed)")

NoOutcome ==
    [kind |-> "none", supports_proposition |-> PyFalse, confidence |-> "",
     reasoning |-> "", exc |-> "", msg |-> ""]

SupportInit ==
    /\ sPrimary \in PrimaryOutcomes
    /\ sScript \in ChunkScripts
    /\ sPc = "primary"
    /\ sIdx = 0
    /\ best_supporting_result = <<>>
    /\ all_results = <<>>
    /\ sResult = NoOutcome
    /\ sCalls = <<>>

\* The call on the whole text and the `except BadRequestError` clause up to
\* `chunks = _chunk_text(opinion_text)`.
SupportPrimary ==
    /\ sPc = "primary"
    /\ sCalls' = Append(sCalls, 0)
    /\ IF sPrimary.kind = "result"
       THEN sPc' = "returned" /\ sResult' = sPrimary
       ELSE IF sPrimary.exc = "BadRequestError" /\ IsTooLarge(sPrimary.msg)
       THEN sPc' = "loop" /\ sResult' = sResult
       ELSE sPc' = "raised" /\ sResult' = sPrimary
    /\ UNCHANGED <<sPrimary, sScript, sIdx, best_supporting_result, all_results>>
    /\ UNCHANGED <<retryVars, chunkVars, clientVars, evalVars, dirVars, cacheVars, rateVars, lookupVars, batchVars>>

\* One iteration of `for i, chunk in enumerate(chunks)`.
SupportChunk ==
    /\ sPc = "loop"
    /\ sIdx < Len(sScript)
    /\ LET i == sIdx + 1
           result == EvaluateChunk(i)
           kept == /\ result.kind = "result"
                   /\ result.supports_proposition = PyTrue
                   /\ KeepsNewBest(best_supporting_result, result)
       IN  /\ sCalls' = Append(sCalls, i)
           /\ all_results' = IF result.kind = "result"
                              THEN Append(all_results, result)
                              ELSE all_results
           /\ best_supporting_result' =
                  IF kept THEN <<result>> ELSE best_supporting_result
           /\ IF result.kind = "raise" /\ ~ChunkFailureSkipped(result.exc)
              THEN sPc' = "raised" /\ sResult' = result /\ sIdx' = sIdx
              ELSE IF kept /\ StopsEarly(result)
              THEN sPc' = "after" /\ sResult' = sResult /\ sIdx' = i
              ELSE sPc' = "loop" /\ sResult' = sResult /\ sIdx' = i
    /\ UNCHANGED <<sPrimary, sScript>>
    /\ UNCHANGED <<retryVars, chunkVars, clientVars, evalVars, dirVars, cacheVars, rateVars, lookupVars, batchVars>>

\* After the loop: the best supporting result, else the first result by
\* confidence, else the all-chunks-failed result.
SupportFinish ==
    /\ \/ sPc = "after"
       \/ (sPc = "loop" /\ sIdx = Len(sScript))
    /\ sPc' = "returned"
    /\ sResult' =
          IF best_supporting_result # <<>>
          THEN [best_supporting_result[1] EXCEPT
                  !.reasoning = "[Evaluated in chunks] " \o @]
          ELSE IF all_results # <<>>
          THEN [FirstBySort(all_results) EXCEPT
                  !.reasoning = "[Evaluated in " \o ToString(Len(sScript))
                                  \o " chunks] " \o @]
          ELSE AllChunksFailed
    /\ UNCHANGED <<sPrimary, sScript, sIdx, best_supporting_result,
                   all_results, sCalls>>
    /\ UNCHANGED <<retryVars, chunkVars, clientVars, evalVars, dirVars, cacheVars, rateVars, lookupVars, batchVars>>

SupportNext == SupportPrimary \/ SupportChunk \/ SupportFinish

\* evaluate_proposition_support not running.
SupportIdle ==
    /\ sPrimary = NoOutcome
    /\ sScript = <<>>
    /\ sPc = "idle"
    /\ sIdx = 0
    /\ best_supporting_result = <<>>
    /\ all_results = <<>>
    /\ sResult = NoOutcome
    /\ sCalls = <<>>

(***************************************************************************)
(* CourtListenerClient._rate_limit                                         *)
(***************************************************************************)

\* rate_limit_delay = 0.5, in tenths of a second.
DefaultRateLimitDelay == 5

\* Client instances, requests and clock values explored.
Clients == {1, 2}
MaxRequests == 3
ClockStart == 5
MaxClock == 14

\* Mutation: the gate never sleeps.
GateSleepNone(elapsed, d) == 0

\* `if elapsed < self.rate_limit_delay: time.sleep(self.rate_limit_delay - elapsed)`
GateSleep(elapsed, d) == IF elapsed < d THEN d - elapsed ELSE 0

\* Clients just constructed: _last_request_time = 0.0. The clock is the
\* wall clock, at least rate_limit_delay after 0.0.
RateInit ==
    /\ now = ClockStart
    /\ rate_limit_delay \in {DefaultRateLimitDelay, 2}
    /\ last_request_time = [c \in Clients |-> 0]
    /\ reqLog = <<>>

\* Time passes: the client's caller works, a response is awaited, a retry
\* backs off.
RateTick ==
    /\ now < MaxClock
    /\ now' = now + 1
    /\ UNCHANGED <<rate_limit_delay, last_request_time, reqLog>>
    /\ UNCHANGED <<retryVars, chunkVars, clientVars, evalVars, dirVars, cacheVars,
                   supportVars, lookupVars, batchVars>>

\* do_lookup or fetch_opinion of client c, first try or retry: _rate_limit()
\* and then the request is started. The sleep lasts the time asked for, or
\* longer by `late`.
RateRequest(c, late) ==
    /\ Len(reqLog) < MaxRequests
    /\ LET elapsed == now - last_request_time[c]
           woke == now + GateSleep(elapsed, rate_limit_delay) + late
       IN  /\ woke <= MaxClock
           /\ now' = woke
           /\ last_request_time' = [last_request_time EXCEPT ![c] = woke]
           /\ reqLog' = Append(reqLog, [client |-> c, at |-> woke])
    /\ UNCHANGED rate_limit_delay
    /\ UNCHANGED <<retryVars, chunkVars, clientVars, evalVars, dirVars, cacheVars,
                   supportVars, lookupVars, batchVars>>

RateNext ==
    \/ RateTick
    \/ \E c \in Clients, late \in {0, 1} : RateRequest(c, late)

\* No client making requests.
RateIdle ==
    /\ now = 0
    /\ rate_limit_delay = DefaultRateLimitDelay
    /\ last_request_time = [c \in {} |-> 0]
    /\ reqLog = <<>>

(***************************************************************************)
(* CourtListenerClient.lookup_citation                                     *)
(***************************************************************************)

\* Matches a lookup response can list, and how many of them.
MaxMatches == 3
LookupMatches ==
    { Match(200, <<ClusterInline>>), Match(200, <<ClusterLinked, ClusterBare>>),
      Match(200, <<>>), Match(404, <<>>), Match(300, <<ClusterBare>>) }

LookupBodies == UNION { [1..n -> LookupMatches] : n \in 0..MaxMatches }

LookupInit ==
    /\ lScript \in NetScripts
    /\ lBody \in LookupBodies
    /\ lPc = "call"
    /\ lCluster = <<>>

\* lookup_citation(raw_text): the request under retry_with_backoff, then
\* the parsing of the body.
LookupCitation ==
    /\ lPc = "call"
    /\ IF Retry(lScript).raised
       THEN lPc' = "raised" /\ lCluster' = lCluster
       ELSE lPc' = "returned" /\ lCluster' = ParseLookup(lBody)
    /\ UNCHANGED <<lScript, lBody>>
    /\ UNCHANGED <<retryVars, chunkVars, clientVars, evalVars, dirVars, cacheVars,
                   supportVars, rateVars, batchVars>>

LookupNext == LookupCitation

\* lookup_citation not running.
LookupIdle ==
    /\ lScript = <<>>
    /\ lBody = <<>>
    /\ lPc = "idle"
    /\ lCluster = <<>>

(***************************************************************************)
(* CourtListenerClient.validate_citations                                  *)
(***************************************************************************)

\* Calls of validate_citation made before the batch.
MaxSingles == 1

\* Citation objects as a caller can hand them over: fresh, marked as a
\* statute, or with a validity already set.
BatchCitations ==
    { [NewCitation(t) EXCEPT !.court = x[1], !.is_valid = x[2]] :
        t \in {"Roe", "Doe"},
        x \in {<<None, None>>, <<"STATUTE", None>>, <<None, PyTrue>>,
               <<None, PyFalse>>} }

\* The service's answers explored: a cluster with inline text, no match, a
\* refused lookup, a linked opinion whose fetch is refused.
BatchAnswers ==
    { Answer(<<Success>>, <<Match(200, <<ClusterInline>>)>>, <<Success>>,
             NoOpinionData),
      Answer(<<Success>>, <<>>, <<Success>>, NoOpinionData),
      Answer(<<HttpError(404)>>, <<>>, <<Success>>, NoOpinionData),
      Answer(<<Success>>, <<Match(200, <<ClusterLinked>>)>>, <<HttpError(404)>>,
             NoOpinionData) }

\* `if citation.court == "STATUTE" or citation.is_valid is not None: continue`
BatchSkips(citation) ==
    citation.court = "STATUTE" \/ citation.is_valid # None

\* What the log keeps of one element or call.
Handled(via, i, skipped, r) ==
    [via |-> via, cit |-> i, skipped |-> skipped,
     before |-> citations[i], after |-> r.citation,
     cached |-> CacheHas(cache, citations[i]),
     lookups |-> r.lookups, raised |-> r.raised,
     cacheChanged |-> (r.cache # cache \/ r.saved)]

\* A client on an empty cache directory and the caller's citations.
BatchInit ==
    /\ cache_file = MissingFile
    /\ cache = LoadCache(cache_file)
    /\ citations \in [CitIds -> BatchCitations]
    /\ vLog = <<>>
    /\ bPc = "ready"
    /\ bIdx = 0
    /\ bLog = <<>>

\* client.validate_citation(citations[i]) called directly.
BatchSingle(i, a) ==
    /\ bPc = "ready"
    /\ Len(bLog) < MaxSingles
    /\ LET r == ValidateCitation(cache, citations[i], a.ls, a.resp, a.fs, a.od)
       IN  /\ citations' = [citations EXCEPT ![i] = r.citation]
           /\ cache' = r.cache
           /\ cache_file' = IF r.saved THEN SaveCache(cache_file, r.cache)
                            ELSE cache_file
           /\ bLog' = Append(bLog, Handled("validate_citation", i, FALSE, r))
    /\ UNCHANGED <<vLog, bPc, bIdx>>
    /\ UNCHANGED <<retryVars, chunkVars, evalVars, dirVars, cacheVars,
                   supportVars, rateVars, lookupVars>>

\* client.validate_citations(citations) is called.
BatchStart ==
    /\ bPc = "ready"
    /\ bPc' = "loop"
    /\ bIdx' = 0
    /\ UNCHANGED bLog
    /\ UNCHANGED <<retryVars, chunkVars, clientVars, evalVars, dirVars, cacheVars,
                   supportVars, rateVars, lookupVars>>

\* One iteration of `for citation in citations`.
BatchStep(a) ==
    /\ bPc = "loop"
    /\ bIdx < Cardinality(CitIds)
    /\ LET i == bIdx + 1
           skipped == BatchSkips(citations[i])
           v == ValidateCitation(cache, citations[i], a.ls, a.resp, a.fs, a.od)
           r == IF skipped
                THEN Outcome(citations[i], cache, FALSE, FALSE, FALSE, 0, 0)
                ELSE v
       IN  /\ citations' = [citations EXCEPT ![i] = r.citation]
           /\ cache' = r.cache
           /\ cache_file' = IF r.saved THEN SaveCache(cache_file, r.cache)
                            ELSE cache_file
           /\ bLog' = Append(bLog, Handled("validate_citations", i, skipped, r))
           /\ bPc' = IF r.raised THEN "raised" ELSE "loop"
           /\ bIdx' = IF r.raised THEN bIdx ELSE i
    /\ UNCHANGED vLog
    /\ UNCHANGED <<retryVars, chunkVars, evalVars, dirVars, cacheVars,
                   supportVars, rateVars, lookupVars>>

\* `return citations`
BatchReturn ==
    /\ bPc = "loop"
    /\ bIdx = Cardinality(CitIds)
    /\ bPc' = "returned"
    /\ UNCHANGED <<bIdx, bLog>>
    /\ UNCHANGED <<retryVars, chunkVars, clientVars, evalVars, dirVars, cacheVars,
                   supportVars, rateVars, lookupVars>>

BatchNext ==
    \/ \E i \in CitIds, a \in BatchAnswers : BatchSingle(i, a)
    \/ BatchStart
    \/ \E a \in BatchAnswers : BatchStep(a)
    \/ BatchReturn

\* validate_citations not running.
BatchIdle ==
    /\ bPc = "idle"
    /\ bIdx = 0
    /\ bLog = <<>>

(***************************************************************************)
(* Specifications                                                          *)
(***************************************************************************)

\* Initial states: one component set up, the others idle.
InitRetry ==
    RetryInit /\ ChunkIdle /\ ClientIdle /\ EvalIdle
    /\ DirIdle /\ CacheIdle /\ SupportIdle /\ RateIdle
    /\ LookupIdle
    /\ BatchIdle
InitChunk ==
    ChunkInit /\ RetryIdle /\ ClientIdle /\ EvalIdle
    /\ DirIdle /\ CacheIdle /\ SupportIdle /\ RateIdle
    /\ LookupIdle
    /\ BatchIdle
InitCache ==
    CacheInit /\ RetryIdle /\ ChunkIdle /\ EvalIdle
    /\ DirIdle /\ SupportIdle /\ RateIdle
    /\ LookupIdle
    /\ BatchIdle
InitSupport ==
    SupportInit /\ RetryIdle /\ ChunkIdle /\ ClientIdle
    /\ EvalIdle /\ DirIdle /\ CacheIdle /\ RateIdle
    /\ LookupIdle
    /\ BatchIdle
InitRate ==
    RateInit /\ RetryIdle /\ ChunkIdle /\ ClientIdle
    /\ EvalIdle /\ DirIdle /\ CacheIdle /\ SupportIdle
    /\ LookupIdle
    /\ BatchIdle
InitLookup ==
    LookupInit /\ RetryIdle /\ ChunkIdle /\ ClientIdle
    /\ EvalIdle /\ DirIdle /\ CacheIdle /\ SupportIdle /\ RateIdle
    /\ BatchIdle
InitBatch ==
    BatchInit /\ RetryIdle /\ ChunkIdle
    /\ EvalIdle /\ DirIdle /\ CacheIdle /\ SupportIdle /\ RateIdle
    /\ LookupIdle
InitClient ==
    ClientInit /\ RetryIdle /\ ChunkIdle /\ EvalIdle
    /\ DirIdle /\ CacheIdle /\ SupportIdle /\ RateIdle
    /\ LookupIdle
    /\ BatchIdle
InitEval ==
    EvalInit /\ RetryIdle /\ ChunkIdle /\ DirIdle
    /\ CacheIdle /\ SupportIdle /\ RateIdle
    /\ LookupIdle
    /\ BatchIdle
InitDir ==
    DirInit /\ RetryIdle /\ ChunkIdle /\ EvalIdle
    /\ CacheIdle /\ SupportIdle /\ RateIdle
    /\ LookupIdle
    /\ BatchIdle

SpecRetry == InitRetry /\ [][RetryNext]_vars

SpecChunk == InitChunk /\ [][ChunkNext]_vars

\* _chunk_text is straight-line code in one thread: while it has a next
\* statement, that statement is executed.
SpecChunkFair == SpecChunk /\ WF_vars(ChunkNext)

SpecCache == InitCache /\ [][CacheNext]_vars

SpecSupport == InitSupport /\ [][SupportNext]_vars

SpecRate == InitRate /\ [][RateNext]_vars

SpecLookup == InitLookup /\ [][LookupNext]_vars

SpecBatch == InitBatch /\ [][BatchNext]_vars

SpecClient == InitClient /\ [][ClientNext]_vars

SpecEval == InitEval /\ [][EvalNext]_vars

SpecDir == InitDir /\ [][DirNext]_vars

(***************************************************************************)
(* Claims about retry_with_backoff                                         *)
(***************************************************************************)

\* The failure classes the retry policy is stated to retry.
StatedRetryable(f) ==
    \/ f.type = "HTTPStatusError" /\ (f.status >= 500 \/ f.status = 400 \/ f.status = 429)
    \/ f.type \in {"ConnectError", "ReadTimeout", "WriteTimeout", "PoolTimeout"}

\* A 4xx status other than 400 and 429.
StatedPermanent(f) ==
    /\ f.type = "HTTPStatusError"
    /\ f.status >= 400 /\ f.status < 500
    /\ f.status \notin {400, 429}

AllStatedRetryable(fs) == \A i \in 1..Len(fs) : StatedRetryable(fs[i])

RetryDefaults ==
    /\ max_retries = DefaultMaxRetries
    /\ base_delay = DefaultBaseDelay
    /\ max_delay = DefaultMaxDelay

Status(s) == [type |-> "HTTPStatusError", status |-> s]

\* C6: an operation that fails k <= max_retries times with retryable failures
\* and then succeeds is invoked k+1 times, k sleeps are made and the success
\* value is returned: while at most max_retries retryable failures have
\* happened the function has not given up, and when it returns the counts are
\* k+1 and k. With the defaults, two failures with status 500 give 3
\* invocations and strictly increasing delays.
C6_RetryThenSuccess ==
    /\ (AllStatedRetryable(fails) /\ Len(fails) <= max_retries)
         => /\ rPc \in {"loop", "sleep", "returned"}
            /\ rPc = "returned" =>
                 /\ fnCalls = Len(fails) + 1
                 /\ Len(sleeps) = Len(fails)
                 /\ rResult = Success
    /\ (RetryDefaults /\ rPc = "returned" /\ fails = <<Status(500), Status(500)>>)
         => /\ fnCalls = 3
            /\ Len(sleeps) = 2
            /\ sleeps[1] < sleeps[2]

C6_Witness ==
    /\ RetryDefaults
    /\ rPc = "returned"
    /\ fails = <<Status(500), Status(500)>>
    /\ fnCalls = 3

\* C7: a failure with a 4xx status other than 400 and 429 ends the function
\* at once, on whichever attempt it occurs: the failing invocation is the last
\* one, no sleep follows it and that very error is raised. As the first
\* failure it gives one invocation and no sleep.
C7_PermanentFailureNotRetried ==
    (Len(fails) > 0 /\ StatedPermanent(fails[Len(fails)]))
      => /\ rPc = "raised"
         /\ rResult = ExcOf(fails[Len(fails)], Len(fails) - 1)
         /\ fnCalls = Len(fails)
         /\ Len(sleeps) = Len(fails) - 1
         /\ (Len(fails) = 1 => fnCalls = 1 /\ sleeps = <<>>)

C7_Witness ==
    /\ rPc = "raised"
    /\ fails = <<Status(500), Status(404)>>
    /\ rResult = ExcOf(Status(404), 1)
    /\ Len(sleeps) = 1

\* C8: when every attempt fails with a retryable failure the operation is
\* invoked max_retries + 1 times, max_retries sleeps are made (none after the
\* final attempt) and the failure of the final attempt is raised.
C8_RetriesExhausted ==
    AllStatedRetryable(fails) =>
      /\ Len(fails) <= max_retries + 1
      /\ rPc \in {"exhausted", "raised"} =>
           /\ fnCalls = max_retries + 1
           /\ Len(fails) = max_retries + 1
           /\ Len(sleeps) = max_retries
      /\ rPc = "raised" =>
           rResult = ExcOf(fails[max_retries + 1], max_retries)

C8_Witness ==
    /\ RetryDefaults
    /\ rPc = "raised"
    /\ AllStatedRetryable(fails)
    /\ fnCalls = 4
    /\ Len(sleeps) = 3

\* The delay the backoff schedule states for the failure f of attempt k.
StatedDelay(f, k) ==
    IF f.type = "HTTPStatusError" /\ f.status = 429
    THEN Min(base_delay * Pow2(k) * 2, max_delay)
    ELSE Min(base_delay * Pow2(k), max_delay)

IsPrefix(s, t) == Len(s) <= Len(t) /\ \A i \in 1..Len(s) : s[i] = t[i]

\* C9: the delay slept after failed attempt k is min(base_delay * 2^k,
\* max_delay), doubled before the cap for status 429; no delay exceeds
\* max_delay; the defaults give 1, 2, 4 seconds (2, 4, 8 for status 429).
C9_BackoffSchedule ==
    /\ \A i \in 1..Len(sleeps) :
         /\ sleeps[i] = StatedDelay(fails[i], i - 1)
         /\ sleeps[i] <= max_delay
    /\ (RetryDefaults /\ \A i \in 1..Len(fails) : fails[i].status # 429)
         => IsPrefix(sleeps, <<1, 2, 4>>)
    /\ (RetryDefaults /\ \A i \in 1..Len(fails) : fails[i] = Status(429))
         => IsPrefix(sleeps, <<2, 4, 8>>)

C9_Witness ==
    /\ RetryDefaults
    /\ sleeps = <<2, 4, 8>>
    /\ \A i \in 1..Len(fails) : fails[i] = Status(429)

(***************************************************************************)
(* Claims about CourtListenerClient                                        *)
(***************************************************************************)

\* C1: once validate_citation has returned normally for a citation, a further
\* call on the same citation is answered from the cache, with no lookup and
\* no request to the service; the call that missed the cache made exactly one
\* lookup, so two calls on a citation the cache did not hold make one lookup
\* in all, found or not found.
C1_SecondValidationFromCache ==
    \A i, j \in 1..Len(vLog) :
      (i < j /\ vLog[i].key = vLog[j].key /\ ~vLog[i].raised /\ ~vLog[j].raised)
        => /\ vLog[j].hit
           /\ vLog[j].lookups = 0
           /\ vLog[j].requests = 0
           /\ (~vLog[i].hit => vLog[i].lookups + vLog[j].lookups = 1)

C1_Witness ==
    /\ Len(vLog) = 2
    /\ vLog[1].cit = 1 /\ vLog[2].cit = 1
    /\ ~vLog[1].hit /\ ~vLog[1].raised /\ vLog[1].lookups = 1
    /\ vLog[2].hit /\ ~vLog[2].raised
    /\ citations[1].is_valid = PyFalse

(***************************************************************************)
(* Claims about evaluate_complaint                                         *)
(***************************************************************************)

\* C4: after every iteration of the loop and at return,
\* valid + invalid <= case <= total and supported + unsupported <= valid.
C4_CountInequalities ==
    /\ evaluation.valid_citations + evaluation.invalid_citations
         <= evaluation.case_citations
    /\ evaluation.case_citations <= evaluation.total_citations
    /\ evaluation.supported_propositions + evaluation.unsupported_propositions
         <= evaluation.valid_citations

C4_Witness ==
    /\ ePc = "returned"
    /\ evaluation.total_citations = 3
    /\ evaluation.case_citations = 2
    /\ evaluation.valid_citations = 1
    /\ evaluation.invalid_citations = 1
    /\ evaluation.supported_propositions = 0
    /\ evaluation.unsupported_propositions = 0

\* Number of citations before position i with the raw text of position i.
EarlierSame(i) ==
    Cardinality({j \in 1..(i - 1) : extracted[j].raw_text = extracted[i].raw_text})

\* The key the duplicate rule states for position i: the raw text for the
\* first occurrence, "X (n)" for the n-th later one.
StatedKey(i) ==
    IF EarlierSame(i) = 0 THEN extracted[i].raw_text
    ELSE SuffixedKey(extracted[i].raw_text, EarlierSame(i))

StoredUnder(i, key) ==
    /\ key \in DOMAIN evaluation.citations
    /\ evaluation.citations[key].proposition = PropositionAt(i)

\* No raw text of the list is another raw text of the list followed by a
\* " (m)" suffix.
NoSuffixedRawText ==
    \A i, j \in 1..Len(extracted), m \in 1..Len(extracted) :
        extracted[j].raw_text # SuffixedKey(extracted[i].raw_text, m)

\* C5 as stated: the first citation with raw text X is stored under "X" and
\* the n-th later one under "X (n)".
C5_Original ==
    \A i \in 1..eIdx : StoredUnder(i, StatedKey(i))

\* C5: every processed citation keeps an entry of its own, so the mapping has
\* as many entries as citations processed and total_citations entries at
\* return; the first citation with raw text X is stored under "X" and the
\* n-th later one under "X (n)" when no citation's raw text is itself another
\* citation's raw text followed by " (m)".
C5_DuplicateKeys ==
    /\ \A i \in 1..eIdx : \E key \in DOMAIN evaluation.citations : StoredUnder(i, key)
    /\ Cardinality(DOMAIN evaluation.citations) = eIdx
    /\ ePc = "returned" =>
         Cardinality(DOMAIN evaluation.citations) = evaluation.total_citations
    /\ NoSuffixedRawText => \A i \in 1..eIdx : StoredUnder(i, StatedKey(i))

C5_Witness ==
    /\ ePc = "returned"
    /\ Len(extracted) = 3
    /\ \A i \in 1..3 : extracted[i].raw_text = "X"
    /\ DOMAIN evaluation.citations = {"X", "X (1)", "X (2)"}

(***************************************************************************)
(* Claims about evaluate_complaints_directory                              *)
(***************************************************************************)

\* C2: a run started on a directory in which every document already has its
\* artifact, written whole or not, makes no LLM request and no legal-database
\* request, opens no artifact for writing, runs no worker past the artifact
\* check and returns an empty list.
C2_RerunSkipsEverything ==
    allDoneAtStart =>
      /\ llmCalls = 0
      /\ dbRequests = 0
      /\ writes = 0
      /\ results = <<>>
      /\ \A d \in Docs : wPc[d] \in {"queued", "done"}
      /\ \A d \in Docs : wRet[d] \in {"pending", "None"}

C2_Witness ==
    /\ allDoneAtStart
    /\ dPc = "returned"
    /\ artifacts["a"] = "written"
    /\ artifacts["b"] = "partial"
    /\ results = <<>>

\* Number of entries of the returned list for document d.
TimesReturned(d) ==
    Cardinality({i \in 1..Len(results) : results[i].complaint_file = d})

\* C3: an exception while a document is processed never leaves
\* evaluate_complaints_directory; at return every submitted document has been
\* processed to its end, a document whose processing raised is not in the
\* returned list, and a document whose worker returned its evaluation is in
\* it exactly once.
C3_FailureIsContained ==
    /\ dPc # "raised"
    /\ dPc = "returned" =>
         \A d \in Docs :
           /\ wPc[d] = "done"
           /\ d \in raisedIn => TimesReturned(d) = 0
           /\ (d \notin raisedIn /\ wRet[d] = "evaluation") => TimesReturned(d) = 1

C3_Witness ==
    /\ dPc = "returned"
    /\ raisedIn = {"a"}
    /\ wRet["a"] = "exception"
    /\ wRet["b"] = "evaluation"
    /\ Len(results) = 1
    /\ results[1].complaint_file = "b"

(***************************************************************************)
(* Claims about _chunk_text                                                *)
(***************************************************************************)

RECURSIVE ConcatStripped(_, _, _)
\* The chunks cs[i..], each without its first ov characters, concatenated.
ConcatStripped(cs, i, ov) ==
    IF i > Len(cs) THEN <<>>
    ELSE PySlice(cs[i], ov, Len(cs[i])) \o ConcatStripped(cs, i + 1, ov)

\* The first chunk followed by every later chunk without its overlap.
Reconstruct(cs, ov) ==
    IF cs = <<>> THEN <<>> ELSE cs[1] \o ConcatStripped(cs, 2, ov)

\* C10: for a text longer than chunk_size and 0 <= overlap < chunk_size, the
\* first returned chunk followed by the later chunks, each stripped of its
\* first `overlap` characters, is the original text.
C10_ChunksReconstructText ==
    (cPc = "done" /\ Len(text) > chunk_size /\ 0 <= overlap /\ overlap < chunk_size)
      => Reconstruct(chunks, overlap) = text

C10_Witness ==
    /\ cPc = "done"
    /\ text = <<"a", "b", "b", "a", "b">>
    /\ chunk_size = 3
    /\ overlap = 2
    /\ Len(chunks) = 5
    /\ Len(chunks[5]) = 1

(***************************************************************************)
(* _chunk_text: overlap of neighbours, termination, short texts            *)
(***************************************************************************)

\* s[len(s)-k:], written with explicit indices.
LastChars(s, k) == PySlice(s, Len(s) - k, Len(s))

\* The first k characters of s, and the statement that s has that many.
SharesOverlap(prev, next, k) ==
    /\ Len(prev) >= k
    /\ Len(next) >= k
    /\ PySlice(next, 0, k) = LastChars(prev, k)

\* C11: in the returned list every chunk that has a successor shares exactly
\* `overlap` characters with it: the successor's first `overlap` characters
\* are the predecessor's last `overlap` characters, the last two chunks
\* included. Stated for the inputs the window is meant for, a text longer
\* than chunk_size and 0 <= overlap < chunk_size.
C11_NeighboursShareOverlap ==
    (cPc = "done" /\ Len(text) > chunk_size /\ overlap < chunk_size)
      => \A i \in 1..(Len(chunks) - 1) :
            SharesOverlap(chunks[i], chunks[i + 1], overlap)

\* C12: _chunk_text terminates for every text, chunk_size and overlap.
C12_ChunkTextTerminates == <>(cPc = "done")

\* C13: a text of length at most chunk_size comes back as exactly one chunk,
\* equal to the text, whatever the overlap.
C13_ShortTextIsOneChunk ==
    (cPc = "done" /\ Len(text) <= chunk_size) => chunks = <<text>>

C13_Witness ==
    /\ cPc = "done"
    /\ Len(text) = chunk_size
    /\ overlap = chunk_size
    /\ chunks = <<text>>

(***************************************************************************)
(* CitationCache: round trip                                               *)
(***************************************************************************)

\* Two raw texts that are equal after lower-casing and trimming.
SameCitationText(a, b) == Strip(Lower(a)) = Strip(Lower(b))

\* Positions before j of the set calls whose citation has, after
\* lower-casing and trimming, the text of the call at j.
SetsBefore(j) ==
    {i \in 1..(j - 1) :
        /\ cacheOps[i].op = "set"
        /\ SameCitationText(cacheOps[i].raw_text, cacheOps[j].raw_text)}

Latest(S) == CHOOSE i \in S : \A k \in S : k <= i

\* C14: on a fresh cache, a get that follows set calls for a citation with
\* the same text up to case and surrounding whitespace returns an entry, and
\* the entry has the is_valid and courtlistener_id of the most recent of
\* these set calls.
C14_CacheRoundTrip ==
    \A j \in 1..Len(cacheOps) :
        (cacheOps[j].op = "get" /\ SetsBefore(j) # {})
          => LET last == cacheOps[Latest(SetsBefore(j))]
             IN  /\ cacheOps[j].hit
                 /\ cacheOps[j].is_valid = last.is_valid
                 /\ cacheOps[j].courtlistener_id = last.courtlistener_id

C14_Witness ==
    /\ Len(cacheOps) = 3
    /\ cacheOps[1] = [op |-> "set", raw_text |-> "Roe", hit |-> FALSE,
                      is_valid |-> PyFalse, courtlistener_id |-> "456"]
    /\ cacheOps[2] = [op |-> "set", raw_text |-> " roe ", hit |-> FALSE,
                      is_valid |-> PyTrue, courtlistener_id |-> "123"]
    /\ cacheOps[3] = [op |-> "get", raw_text |-> "Roe", hit |-> TRUE,
                      is_valid |-> PyTrue, courtlistener_id |-> "123"]

(***************************************************************************)
(* evaluate_complaint: which citations are validated and evaluated         *)
(***************************************************************************)

\* The calls of kind op made for the citation at position i.
CallsFor(op, i) == SelectSeq(eCalls, LAMBDA c : c.op = op /\ c.idx = i)

\* Positions the loop has reached: those processed and, when the loop
\* raised, the one it raised in.
Reached == 1..(IF ePc = "raised" THEN eIdx + 1 ELSE eIdx)

\* The entries stored for the citation at position i.
EntriesFor(i) ==
    {k \in DOMAIN evaluation.citations :
        evaluation.citations[k].proposition = PropositionAt(i)}

\* C15: a statute citation causes no validation call and no support
\* evaluation and its recorded validity stays unset; a case citation is
\* validated once, and support is evaluated for it, once, exactly when the
\* validation came back valid with non-empty opinion text.
C15_WhoIsValidatedAndEvaluated ==
    \A i \in Reached :
        IF extracted[i].citation_type = "statute"
        THEN /\ CallsFor("validate", i) = <<>>
             /\ CallsFor("support", i) = <<>>
             /\ \A k \in EntriesFor(i) : evaluation.citations[k].is_valid = None
        ELSE /\ Len(CallsFor("validate", i)) = 1
             /\ LET v == CallsFor("validate", i)[1]
                 IN  Len(CallsFor("support", i)) =
                       IF ~v.raised /\ v.is_valid = PyTrue
                          /\ v.opinion_text \notin {None, ""}
                       THEN 1 ELSE 0

C15_Witness ==
    /\ ePc = "returned"
    /\ Len(extracted) = 3
    /\ extracted[1].citation_type = "statute"
    /\ extracted[2].citation_type = "case"
    /\ extracted[3].citation_type = "case"
    /\ EntriesFor(1) # {}
    /\ Len(eCalls) = 3
    /\ eCalls[1].op = "validate" /\ eCalls[1].idx = 2 /\ eCalls[1].is_valid = PyTrue
    /\ eCalls[2].op = "support" /\ eCalls[2].idx = 2
    /\ eCalls[3].op = "validate" /\ eCalls[3].idx = 3 /\ eCalls[3].is_valid = PyFalse

(***************************************************************************)
(* evaluate_proposition_support: when the fallback runs, what it returns   *)
(***************************************************************************)

\* The primary call failed with a request error whose message, compared
\* without regard to case, contains "token", "length" or "context".
PrimaryFailedTooLarge ==
    /\ sPrimary.kind = "raise"
    /\ sPrimary.exc = "BadRequestError"
    /\ \E w \in {"token", "length", "context"} : Contains(Lower(sPrimary.msg), w)

\* The chunked fallback has been entered.
InFallback == sPc \in {"loop", "after"} \/ Len(sCalls) > 1

\* C16: the chunked fallback is entered only when the primary call failed
\* with a request error whose message contains "token", "length" or
\* "context"; any other failure of the primary call is raised to the caller
\* as it is, with no chunk evaluated and no evaluator call after the first.
C16_FallbackOnlyWhenTooLarge ==
    /\ InFallback => PrimaryFailedTooLarge
    /\ (sPc # "primary" /\ sPrimary.kind = "raise" /\ ~PrimaryFailedTooLarge)
         => (sPc = "raised" /\ sResult = sPrimary /\ sCalls = <<0>>)

C16_Witness ==
    /\ sPc = "raised"
    /\ sPrimary = Raises("BadRequestError", "invalid schema")
    /\ sResult = sPrimary
    /\ sCalls = <<0>>

\* Chunk i has been evaluated.
Evaluated(i) == \E k \in 1..Len(sCalls) : sCalls[k] = i

\* The evaluator's verdict on chunk i is positive.
Positive(i) ==
    sScript[i].kind = "result" /\ sScript[i].supports_proposition = PyTrue

HighPositive(i) == Positive(i) /\ sScript[i].confidence = "high"

\* What the fallback returns when it returns the result of chunk i.
ReturnedFromChunk(i) ==
    Result(sScript[i].supports_proposition, sScript[i].confidence,
           "[Evaluated in chunks] chunk " \o ToString(i))

\* C19: in the fallback the chunks are evaluated in order, and once a chunk
\* has returned a positive verdict with high confidence no later chunk is
\* evaluated and the result of that chunk is the one returned.
C19_StopsAtHighConfidenceSupport ==
    /\ \A k \in 1..Len(sCalls) : sCalls[k] = k - 1
    /\ \A i \in 1..Len(sScript) :
          (Evaluated(i) /\ HighPositive(i))
            => /\ \A j \in (i + 1)..Len(sScript) : ~Evaluated(j)
               /\ sPc \in {"after", "returned"}
               /\ sPc = "returned" => sResult = ReturnedFromChunk(i)

C19_Witness ==
    /\ sPc = "returned"
    /\ Len(sScript) = 3
    /\ Positive(1) /\ sScript[1].confidence = "low"
    /\ HighPositive(2)
    /\ sCalls = <<0, 1, 2>>
    /\ sResult = ReturnedFromChunk(2)

\* The smallest member of a non-empty set of chunk positions.
First(S) == CHOOSE i \in S : \A j \in S : i <= j

\* C20: when the fallback returns and an evaluated chunk gave a positive
\* verdict, the verdict returned is positive whatever the negative verdicts
\* were: it is the result of the first high-confidence positive chunk if
\* there is one, else of the first positive chunk.
C20_AnyPositiveChunkWins ==
    LET pos == {i \in 1..Len(sScript) : Evaluated(i) /\ Positive(i)}
        high == {i \in pos : HighPositive(i)}
    IN  (sPc = "returned" /\ InFallback /\ pos # {})
          => /\ sResult.supports_proposition = PyTrue
             /\ sResult = ReturnedFromChunk(IF high # {} THEN First(high)
                                            ELSE First(pos))

C20_Witness ==
    /\ sPc = "returned"
    /\ Len(sScript) = 3
    /\ sScript[1] = Result(PyFalse, "high", "")
    /\ sScript[2] = Result(PyTrue, "low", "")
    /\ sScript[3] = Result(PyTrue, "medium", "")
    /\ sCalls = <<0, 1, 2, 3>>
    /\ sResult = ReturnedFromChunk(2)

(***************************************************************************)
(* The cache file under concurrent workers                                 *)
(***************************************************************************)

\* The worker of d has stored an entry, and no entry under a key that the
\* worker of e has.
StoredApart(d, e) ==
    /\ d # e
    /\ DOMAIN wCache[d] # {}
    /\ DOMAIN wCache[e] # {}
    /\ DOMAIN wCache[d] \cap DOMAIN wCache[e] = {}

\* C17: cache writes are not serialized across workers. When two workers
\* running at the same time have each validated a different uncached
\* citation, the cache file is the dict of the one that saved last and lacks
\* the entry of the other (the witness is such an interleaving).
C17_LastWriterWins ==
    \A d, e \in DOMAIN wCache :
        StoredApart(d, e)
          => /\ cache_file.state = "json"
             /\ cache_file.data \in {wCache[d], wCache[e]}
             /\ \/ DOMAIN cache_file.data \cap DOMAIN wCache[d] = {}
                \/ DOMAIN cache_file.data \cap DOMAIN wCache[e] = {}

C17_Witness ==
    /\ dPc = "running"
    /\ wPc["a"] = "loop" /\ wPc["b"] = "loop"
    /\ DOMAIN wCache["a"] = {make_key("X")}
    /\ DOMAIN wCache["b"] = {make_key("Y")}
    /\ cache_file = JsonFile(wCache["b"])
    /\ make_key("X") \notin DOMAIN cache_file.data

(***************************************************************************)
(* The rate-limit gate                                                     *)
(***************************************************************************)

\* Positions in reqLog of the requests of client c.
RequestsOf(c) == {k \in 1..Len(reqLog) : reqLog[k].client = c}

\* Requests j < k of one client with none of that client's in between.
Consecutive(j, k) ==
    /\ j < k
    /\ reqLog[j].client = reqLog[k].client
    /\ \A m \in (j + 1)..(k - 1) : reqLog[m].client # reqLog[j].client

\* C18: two consecutive requests of one client instance are started at
\* least rate_limit_delay apart, and the gate state of an instance is the
\* start time of its own latest request (0.0 before its first), whatever the
\* other instances request.
C18_RequestsSpacedPerClient ==
    /\ \A j, k \in 1..Len(reqLog) :
          Consecutive(j, k) => reqLog[k].at - reqLog[j].at >= rate_limit_delay
    /\ \A c \in DOMAIN last_request_time :
          last_request_time[c] =
            IF RequestsOf(c) = {} THEN 0
            ELSE reqLog[CHOOSE k \in RequestsOf(c) :
                          \A m \in RequestsOf(c) : m <= k].at

\* Client 1 waits for its second request, while client 2 starts a request
\* right after the first request of client 1.
C18_Witness ==
    /\ rate_limit_delay = DefaultRateLimitDelay
    /\ Len(reqLog) = 3
    /\ reqLog[1].client = 1
    /\ reqLog[2].client = 2
    /\ reqLog[2].at - reqLog[1].at < rate_limit_delay
    /\ reqLog[3].client = 1
    /\ reqLog[3].at - reqLog[1].at = rate_limit_delay

(***************************************************************************)
(* evaluate_proposition_support: no supporting chunk, failing chunks       *)
(***************************************************************************)

\* The call on chunk i gave a result; it failed with a too-large error.
GaveResult(i) == sScript[i].kind = "result"
FailedTooLarge(i) ==
    sScript[i].kind = "raise" /\ sScript[i].exc = "BadRequestError"

\* Rank of a confidence, the most confident first.
StatedRank(conf) == IF conf = "high" THEN 0 ELSE IF conf = "medium" THEN 1 ELSE 2

\* What the fallback returns when it returns the negative result of chunk i.
ReturnedNegative(i) ==
    Result(sScript[i].supports_proposition, sScript[i].confidence,
           "[Evaluated in " \o ToString(Len(sScript)) \o " chunks] chunk "
             \o ToString(i))

\* C21: when the fallback returns, no evaluated chunk supported the
\* proposition and some chunk gave a result, the result returned is negative
\* and is that of the chunk with the most confident verdict, the earliest
\* such chunk on ties, its reasoning marked as a multi-chunk evaluation.
C21_MostConfidentNegative ==
    LET pos == {i \in 1..Len(sScript) : Evaluated(i) /\ Positive(i)}
        got == {i \in 1..Len(sScript) : Evaluated(i) /\ GaveResult(i)}
        top == {i \in got : \A j \in got :
                   StatedRank(sScript[i].confidence)
                     <= StatedRank(sScript[j].confidence)}
    IN  (sPc = "returned" /\ InFallback /\ pos = {} /\ got # {})
          => /\ sResult.supports_proposition = PyFalse
             /\ sResult = ReturnedNegative(First(top))

C21_Witness ==
    /\ sPc = "returned"
    /\ sScript = <<Result(PyFalse, "low", ""), Result(PyFalse, "high", ""),
                   Result(PyFalse, "high", "")>>
    /\ sResult = ReturnedNegative(2)

\* The results of the chunks evaluated so far, failures left out.
RECURSIVE ResultsUpTo(_)
ResultsUpTo(n) ==
    IF n = 0 THEN <<>>
    ELSE IF GaveResult(n) THEN Append(ResultsUpTo(n - 1), EvaluateChunk(n))
    ELSE ResultsUpTo(n - 1)

\* C22: a chunk whose call fails with a too-large error is skipped. The
\* failure is not raised, the loop goes on with the next chunk (the function
\* returns only after the last one), and the results the selection is made
\* from hold nothing for that chunk.
C22_TooLargeChunkIsSkipped ==
    /\ (sPc = "raised" /\ InFallback) => sResult.exc # "BadRequestError"
    /\ \A i \in 1..Len(sScript) :
          (Evaluated(i) /\ FailedTooLarge(i) /\ sCalls[Len(sCalls)] = i)
            => /\ sIdx = i
               /\ sPc \in {"loop", "returned"}
               /\ sPc = "returned" => i = Len(sScript)
    /\ InFallback => all_results = ResultsUpTo(Len(sCalls) - 1)

C22_Witness ==
    /\ sPc = "returned"
    /\ sScript = <<Result(PyFalse, "high", ""),
                   Raises("BadRequestError", "context window"),
                   Result(PyTrue, "low", "")>>
    /\ sCalls = <<0, 1, 2, 3>>
    /\ sResult = ReturnedFromChunk(3)

\* The evaluation that evaluate_complaint is building when the support
\* verdict of its only citation arrives.
OneValidCitation == [NewEvaluation(1) EXCEPT !.case_citations = 1,
                                            !.valid_citations = 1]

\* C23: when every chunk fails to give a result the fallback returns, and
\* does not raise, a result with supports_proposition False and confidence
\* low whose reasoning says that all chunks failed; evaluate_complaint
\* counts the citation as an unsupported proposition.
C23_AllChunksFailedIsNegative ==
    (sPc \in {"returned", "raised"} /\ InFallback
       /\ \A i \in 1..Len(sScript) : FailedTooLarge(i))
      => /\ sPc = "returned"
         /\ sResult.kind = "result"
         /\ sResult.supports_proposition = PyFalse
         /\ sResult.confidence = "low"
         /\ Contains(sResult.reasoning, "all chunks failed")
         /\ CountSupport(OneValidCitation, sResult.supports_proposition)
              = [OneValidCitation EXCEPT !.unsupported_propositions = 1]

C23_Witness ==
    /\ sPc = "returned"
    /\ Len(sScript) = 3
    /\ \A i \in 1..3 : FailedTooLarge(i)
    /\ sCalls = <<0, 1, 2, 3>>
    /\ sResult = AllChunksFailed

(***************************************************************************)
(* validate_citation: the cached outcome and the original one              *)
(***************************************************************************)

\* The fields that make up the outcome of a validation.
SameOutcome(a, b) ==
    /\ a.is_valid = b.is_valid
    /\ a.courtlistener_id = b.courtlistener_id
    /\ a.case_name = b.case_name
    /\ a.opinion_text = b.opinion_text
    /\ a.validation_error = b.validation_error

\* Citation c was validated by exactly one call, the one logged at k.
OnlyValidatedAt(c, k) ==
    \A m \in 1..Len(vLog) : vLog[m].cit = c <=> m = k

\* C24: a fresh citation validated from the cache ends with the same
\* is_valid, courtlistener_id, case_name, opinion_text and validation_error
\* as the citation with the same raw text whose uncached validation created
\* the entry, for found and for not-found outcomes.
C24_CacheHitSameOutcome ==
    \A j, k \in 1..Len(vLog) :
        (/\ j < k
         /\ vLog[j].cit # vLog[k].cit
         /\ OnlyValidatedAt(vLog[j].cit, j)
         /\ OnlyValidatedAt(vLog[k].cit, k)
         /\ ~vLog[j].hit /\ ~vLog[j].raised
         /\ vLog[k].hit
         /\ citations[vLog[j].cit].raw_text = citations[vLog[k].cit].raw_text)
          => SameOutcome(citations[vLog[j].cit], citations[vLog[k].cit])

(***************************************************************************)
(* lookup_citation: which responses count as found                         *)
(***************************************************************************)

\* The match at position k has status 200 and carries cluster data.
PositiveMatch(k) == lBody[k].status = 200 /\ Len(lBody[k].clusters) > 0

\* C25: lookup_citation reports a cluster whenever some match of the
\* response, at whatever position, has status 200 and carries cluster data,
\* and reports not found only when no match has.
C25_FoundAtAnyPosition ==
    lPc = "returned"
      => (lCluster # <<>> <=> \E k \in 1..Len(lBody) : PositiveMatch(k))

(***************************************************************************)
(* C26                                                                     *)
(***************************************************************************)

\* A statute citation or one whose is_valid is already True or False.
Resolved(citation) ==
    citation.court = "STATUTE" \/ citation.is_valid # None

\* C26: the validator never issues a lookup and never changes the citation or
\* the cache for a statute citation or a citation whose validity is already
\* resolved, through validate_citation as through validate_citations, and
\* the batch makes one lookup for each remaining uncached citation.
C26_ResolvedCitationsUntouched ==
    \A k \in 1..Len(bLog) :
        LET e == bLog[k] IN
        /\ Resolved(e.before) =>
              e.lookups = 0 /\ e.after = e.before /\ ~e.cacheChanged
        /\ (e.via = "validate_citations" /\ ~Resolved(e.before)) =>
              e.lookups = IF e.cached THEN 0 ELSE 1

\* The same statement restricted to the elements of a batch.
C26_BatchOnly ==
    \A k \in 1..Len(bLog) :
        LET e == bLog[k] IN
        e.via = "validate_citations" =>
            /\ Resolved(e.before) =>
                  e.lookups = 0 /\ e.after = e.before /\ ~e.cacheChanged
            /\ ~Resolved(e.before) =>
                  e.lookups = IF e.cached THEN 0 ELSE 1

(***************************************************************************)
(* C27                                                                     *)
(***************************************************************************)

\* The keys whose entry the step has written or changed to is_valid False.
NewNegativeKeys ==
    { k \in DOMAIN cache' :
        /\ cache'[k].is_valid = PyFalse
        /\ (k \notin DOMAIN cache \/ cache[k] # cache'[k]) }

\* C27: a validate_citation call whose lookup or per-opinion fetch ends in
\* an exception raises and leaves the cache, in memory and on disk, as it
\* was; an entry with is_valid False is written only by a call that missed
\* the cache and whose lookup completed and gave no cluster.
C27_FailureIsNoVerdict ==
    [][Len(vLog') = Len(vLog) + 1 =>
         LET e == vLog'[Len(vLog')] IN
         /\ e.failed # "none" =>
               /\ e.raised
               /\ cache' = cache
               /\ cache_file' = cache_file
         /\ NewNegativeKeys # {} =>
               /\ NewNegativeKeys = {e.key}
               /\ ~e.hit
               /\ e.failed = "none"
               /\ ~e.matched]_vars

\* A call has raised on the fetch of the opinion, after its lookup was
\* answered, and its fingerprint is not in the cache, while another call has stored a
\* not-found entry.
C27_Witness ==
    /\ \E k \in 1..Len(vLog) :
          /\ vLog[k].raised
          /\ vLog[k].failed = "fetch"
          /\ vLog[k].key \notin DOMAIN cache
    /\ \E k \in DOMAIN cache : cache[k].is_valid = PyFalse

(***************************************************************************)
(* C28                                                                     *)
(***************************************************************************)

\* Number of extracted citations of type statute, and of another type.
StatutesExtracted ==
    Cardinality({i \in 1..Len(extracted) : extracted[i].citation_type = "statute"})
CasesExtracted ==
    Cardinality({i \in 1..Len(extracted) : extracted[i].citation_type # "statute"})

\* C28: the ComplaintEvaluation that evaluate_complaint returns has
\* statute_citations + case_citations = total_citations and
\* valid_citations + invalid_citations = case_citations, the two type
\* counters being the numbers of statute and of other citations extracted.
C28_CountsAddUp ==
    ePc = "returned" =>
        /\ evaluation.statute_citations + evaluation.case_citations
             = evaluation.total_citations
        /\ evaluation.valid_citations + evaluation.invalid_citations
             = evaluation.case_citations
        /\ evaluation.total_citations = Len(extracted)
        /\ evaluation.statute_citations = StatutesExtracted
        /\ evaluation.case_citations = CasesExtracted

\* Returned with a statute, a valid and an invalid citation, the valid one
\* found to support its proposition.
C28_Witness ==
    /\ ePc = "returned"
    /\ evaluation.statute_citations = 1
    /\ evaluation.valid_citations = 1
    /\ evaluation.invalid_citations = 1
    /\ evaluation.supported_propositions = 1

(***************************************************************************)
(* C29                                                                     *)
(***************************************************************************)

\* The step takes document d off the queue.
Taken(d) == wPc[d] = "queued" /\ wPc'[d] # "queued"

\* The worker of d returns at the existence check, nothing done.
SkippedAtCheck(d) ==
    /\ wPc'[d] = "done"
    /\ wRet'[d] = "None"
    /\ d \notin raisedIn'
    /\ llmCalls' = llmCalls /\ dbRequests' = dbRequests /\ writes' = writes

\* C29: the artifact of a document is created only by the step that follows
\* the return of evaluate_complaint; a document whose latest
\* evaluate_complaint raised has no artifact and is not skipped when a
\* later run takes it; a document whose artifact was written is skipped.
C29_ArtifactOnlyAfterEvaluation ==
    [][\A d \in Docs :
         /\ artifacts'[d] # artifacts[d] =>
               /\ artifacts[d] = "none"
               /\ wPc[d] = "loop"
               /\ wIdx[d] = Len(docCites[d])
         /\ d \in lastRaised' => artifacts'[d] = "none"
         /\ (Taken(d) /\ d \in lastRaised) => ~SkippedAtCheck(d)
         /\ (Taken(d) /\ artifacts[d] = "written") => SkippedAtCheck(d)]_vars

\* A later run: document "a", whose evaluate_complaint raised in an earlier
\* run, is in the loop of evaluate_complaint again, and document "b", which
\* succeeded, was skipped.
C29_Witness ==
    /\ dPc = "running"
    /\ "a" \in lastRaised
    /\ wPc["a"] = "loop"
    /\ artifacts["b"] = "written"
    /\ wPc["b"] = "done" /\ wRet["b"] = "None" /\ "b" \notin raisedIn

(***************************************************************************)
(* C30                                                                     *)
(***************************************************************************)

\* The step is an iteration of the worker of d that sends requests to the
\* legal database.
LooksUp(d) ==
    /\ wPc[d] = "loop"
    /\ wIdx[d] < Len(docCites[d])
    /\ (wIdx'[d] # wIdx[d] \/ wPc'[d] # wPc[d])
    /\ dbRequests' > dbRequests

\* The fingerprint of the citation the worker of d is at.
CurrentKey(d) == make_key(docCites[d][wIdx[d] + 1].raw_text)

\* C30: once a worker has written the cache entry of a fingerprint to the
\* cache file, no worker issues a lookup for a citation with that
\* fingerprint.
C30_NoLookupOnceCached ==
    [][\A d \in Docs :
         LooksUp(d) => CurrentKey(d) \notin DOMAIN LoadCache(cache_file)]_vars

=============================================================================
